---- MODULE Spec2Model ----
(***************************************************************************)
(* A model of the entity layer of py2neo (src/py2neo/graph.py): the        *)
(* identity caches and the staleness flags of Node and Relationship        *)
(* (SpecEntity), the Subgraph algebra (SpecSubgraph), the function         *)
(* traverse (SpecTraverse) and the walks built with it by Path and +       *)
(* (SpecWalk), the constructor of Path and the indexing of walks           *)
(* (SpecPath), the cast functions (SpecCast), Graph.pull and Graph.push    *)
(* (SpecGraph), hydration in several execution contexts (SpecContexts),    *)
(* the refresh of entities that the remote store no longer holds           *)
(* (SpecRefresh), the sequences of TraversableSubgraph (SpecSequence) and  *)
(* Graph.__contains__ (SpecContains).                                      *)
(*                                                                         *)
(* Instances are numbered; 0 stands for Python's None.  A remote reference *)
(* (the "self" URI of a record) is a positive number, 0 is "not bound".    *)
(* A property map and a label set are opaque values: 0 is the empty one,   *)
(* -1 stands for a group the record does not carry.                        *)
(***************************************************************************)
EXTENDS Integers, Sequences, FiniteSets, TLC

\* node, rel      the Node and Relationship instances
\* nodeCache,     Node.cache and Relationship.cache: reference -> instance
\*   relCache
\* last           the last operation on entities and what it returned
\* ops            the number of operations on entities so far
\* ctx            the execution contexts (threads), where more than one is followed:
\*                what each sees of the caches, holds, and is in the middle of
\* gNode          the nodes of the local graph that Subgraphs and walks are built of
\* sgA            the Subgraph held: its nodes and its relationships
\* sgOp, sgAdded  the operation that built sgA; whether it had to add end nodes
\* wArgs, wOp     the arguments and the name of the last call that composes walks
\* wOut           what traverse yielded in it, and whether it returned or raised
\* wWalk          the sequence of the walk held (empty: none)
VARIABLES node, nodeCache, rel, relCache, last, ops, ctx,
          gNode, sgA, sgOp, sgAdded,
          wArgs, wOut, wOp, wWalk

entityVars == <<node, nodeCache, rel, relCache, last, ops, ctx>>

subgraphVars == <<sgA, sgOp, sgAdded>>

walkVars == <<wArgs, wOut, wOp, wWalk>>

vars == <<node, nodeCache, rel, relCache, last, ops, ctx, gNode, sgA, sgOp, sgAdded, wArgs, wOut, wOp, wWalk>>

---------------------------------------------------------------------------
(* Bounds of the entity model *)

MaxNodes == 2       \* Node instances alive at the same time

MaxRels == 1        \* Relationship instances alive at the same time

MaxNodeRef == 2     \* remote node references

MaxRelRef == 1      \* remote relationship references

MaxProp == 1        \* distinct non-empty property maps

MaxLabel == 1       \* distinct non-empty label sets

MaxType == 1        \* distinct relationship types

MaxOps == 3         \* operations in one run of a context

None == 0

NoRef == 0

Absent == 0 - 1

NodeIds == 1..MaxNodes

RelIds == 1..MaxRels

NodeRefs == 1..MaxNodeRef

RelRefs == 1..MaxRelRef

PropVals == 0..MaxProp

LabelVals == 0..MaxLabel

Types == 1..MaxType

---------------------------------------------------------------------------
(* Instances *)

\* a slot that holds no instance
DeadNode == [live |-> FALSE, uri |-> NoRef, stale |-> {}, props |-> 0, labels |-> 0]

DeadRel == [live |-> FALSE, uri |-> NoRef, stale |-> {}, props |-> 0, type |-> None, start |-> None, end |-> None]

\* Node.__init__(*labels, **properties): unbound, nothing stale
Node___init__(ls, ps) == [live |-> TRUE, uri |-> NoRef, stale |-> {}, props |-> ps, labels |-> ls]

\* Relationship.__init__(a, t, b, **properties) with PropertyRelationship.__init__ (three arguments)
Relationship___init__(a, t, b, ps) == [live |-> TRUE, uri |-> NoRef, stale |-> {}, props |-> ps, type |-> t, start |-> a, end |-> b]

\* Entity.bound()
bound(e) == e.uri # NoRef

\* the slot a new instance is allocated in (None when the bound is exhausted)
FreeNode(N) == IF \E n \in NodeIds : ~N[n].live THEN CHOOSE n \in NodeIds : ~N[n].live /\ \A m \in NodeIds : ~N[m].live => n <= m ELSE None

FreeRel(R) == IF \E r \in RelIds : ~R[r].live THEN CHOOSE r \in RelIds : ~R[r].live /\ \A m \in RelIds : ~R[m].live => r <= m ELSE None

---------------------------------------------------------------------------
(* Hydration *)

\* the instance Node.hydrate allocates on a cache miss: cls() with both
\* groups marked stale
StaleNode == [Node___init__(0, 0) EXCEPT !.stale = {"labels", "properties"}]

\* Entity._bind and the overwriting of the groups the record carries
\* (p, l: the record's "data" and "metadata" labels, Absent when missing)
Node_bind(e, ref, p, l) ==
  [live |-> TRUE, uri |-> ref,
   stale |-> (e.stale \ (IF p # Absent THEN {"properties"} ELSE {})) \ (IF l # Absent THEN {"labels"} ELSE {}),
   props |-> IF p # Absent THEN p ELSE e.props,
   labels |-> IF l # Absent THEN l ELSE e.labels]

\* cls.cache[self] = inst, and the instance as hydrated
Node_put(N, C, ref, i, e) ==
  [node |-> [N EXCEPT ![i] = e], cache |-> [C EXCEPT ![ref] = i], inst |-> i, full |-> FALSE]

\* Node.hydrate(data, inst): data = {"self": ref, "data": p, "metadata": {"labels": l}}.
\* The result carries the new node table and cache, the instance returned, and
\* full = TRUE when a new instance was needed and no slot is left for it.
Node_hydrate(N, C, ref, p, l, inst) ==
  IF inst # None THEN Node_put(N, C, ref, inst, Node_bind(N[inst], ref, p, l))
  ELSE IF C[ref] # None THEN Node_put(N, C, ref, C[ref], Node_bind(N[C[ref]], ref, p, l))
  ELSE IF FreeNode(N) = None THEN [node |-> N, cache |-> C, inst |-> None, full |-> TRUE]
  ELSE Node_put(N, C, ref, FreeNode(N), Node_bind(StaleNode, ref, p, l))

\* the weak cache drops the entries of instances nobody holds any more
Collect(N, C, dead) ==
  [node |-> [n \in NodeIds |-> IF n \in dead THEN DeadNode ELSE N[n]],
   cache |-> [u \in NodeRefs |-> IF C[u] \in dead THEN None ELSE C[u]]]

\* the result of Relationship.hydrate: node table and cache, relationship
\* table and cache, the instance returned
RelResult(nc, R, RC, i) ==
  [node |-> nc.node, cache |-> nc.cache, rel |-> R, rcache |-> RC, inst |-> i, full |-> FALSE]

\* cls.cache[self] = inst; inst._bind(self, data)
Rel_put(nc, R, RC, ref, i, e) ==
  RelResult(nc, [R EXCEPT ![i] = [e EXCEPT !.uri = ref]], [RC EXCEPT ![ref] = i], i)

\* Relationship.hydrate without an instance, after the two end points are
\* hydrated (h1, h2): new_inst goes into the cache unless the cache holds an
\* instance for ref; then new_inst is dropped, and with it the nodes only it held
Rel_hydrate_new(N, C, R, RC, ref, t, d, h1, h2) ==
  IF h1.full \/ h2.full \/ (RC[ref] = None /\ FreeRel(R) = None)
  THEN [node |-> N, cache |-> C, rel |-> R, rcache |-> RC, inst |-> None, full |-> TRUE]
  ELSE IF RC[ref] # None
  THEN Rel_put(Collect(h2.node, h2.cache, {n \in NodeIds : h2.node[n].live /\ ~N[n].live}),
               R, RC, ref, RC[ref], R[RC[ref]])
  ELSE Rel_put(h2, R, RC, ref, FreeRel(R),
               Relationship___init__(h1.inst, t, h2.inst, IF d = Absent THEN 0 ELSE d))

Rel_hydrate_end(N, C, R, RC, ref, e, t, d, h1) ==
  Rel_hydrate_new(N, C, R, RC, ref, t, d, h1,
                  IF h1.full THEN h1 ELSE Node_hydrate(h1.node, h1.cache, e, Absent, Absent, None))

\* Relationship.hydrate with an instance, after its start node is hydrated:
\* the end node is hydrated, the type is overwritten, the properties are
\* overwritten or marked stale
Rel_hydrate_inst(R, RC, ref, e, t, d, inst, h1) ==
  Rel_put(Node_hydrate(h1.node, h1.cache, e, Absent, Absent, R[inst].end), R, RC, ref, inst,
          [R[inst] EXCEPT !.type = t,
                          !.props = IF d # Absent THEN d ELSE @,
                          !.stale = IF d # Absent THEN @ ELSE @ \cup {"properties"}])

\* Relationship.hydrate(data, inst): data = {"self": ref, "start": s, "end": e,
\* "type": t, "data": d}; t = None and d = Absent when the record has no such key.
Relationship_hydrate(N, C, R, RC, ref, s, e, t, d, inst) ==
  IF inst = None
  THEN Rel_hydrate_end(N, C, R, RC, ref, e, t, d, Node_hydrate(N, C, s, Absent, Absent, None))
  ELSE Rel_hydrate_inst(R, RC, ref, e, t, d, inst, Node_hydrate(N, C, s, Absent, Absent, R[inst].start))

---------------------------------------------------------------------------
(* Equality of entities *)

\* Resource.__eq__ (py2neo.http): two resources are equal when their URIs are
Resource___eq__(u, v) == u = v

\* Node.__eq__ that compares two nodes, when they are not both bound, by
\* their labels and properties
Node___eq__Structural(N, a, b) ==
  IF bound(N[a]) /\ bound(N[b]) THEN Resource___eq__(N[a].uri, N[b].uri)
  ELSE N[a].labels = N[b].labels /\ N[a].props = N[b].props

\* Node.__eq__: two bound nodes compare their resources (a Resource is
\* represented by its URI), any other pair compares by identity
\* (PropertyNode.__eq__).  N is the node table, a and b are instances.
Node___eq__(N, a, b) ==
  IF bound(N[a]) /\ bound(N[b]) THEN Resource___eq__(N[a].uri, N[b].uri) ELSE a = b

---------------------------------------------------------------------------
(* Pull *)

\* what the remote store answers for a node: its property map, its labels,
\* and whether the record carries a "metadata" key
NodeAnswers == [data : PropVals, labels : LabelVals, metadata : BOOLEAN]

\* what the remote store answers for a relationship: its type and property map
RelAnswers == [type : Types, data : PropVals]

\* the answer of an operation that sends no request
NoNodeAnswer == [data |-> 0, labels |-> 0, metadata |-> FALSE]

NoRelAnswer == [type |-> 1, data |-> 0]

\* the labels of column 1 overwrite the node's labels after the commit
Pull_labels(h, n, ans) ==
  [node |-> [h.node EXCEPT ![n].labels = ans.labels], cache |-> h.cache]

\* Graph.pull(node): the row "a, labels(a)" is hydrated into the node itself
\* (cursor.cache["a"] = node), then the labels are overwritten with column 1
Graph_pull_node(N, C, n, ans) ==
  Pull_labels(Node_hydrate(N, C, N[n].uri, ans.data, IF ans.metadata THEN ans.labels ELSE Absent, n), n, ans)

\* the row "r" is hydrated into the relationship itself; its start and end
\* are the references of the relationship's end points
Pull_rel(nc, R, RC, r, ansR) ==
  Relationship_hydrate(nc.node, nc.cache, R, RC, R[r].uri,
                       nc.node[R[r].start].uri, nc.node[R[r].end].uri, ansR.type, ansR.data, r)

Pull_end(N, R, RC, r, ansE, ansR, p1) ==
  Pull_rel(IF Node___eq__(N, R[r].start, R[r].end) THEN p1 ELSE Graph_pull_node(p1.node, p1.cache, R[r].end, ansE),
           R, RC, r, ansR)

\* Graph.pull(relationship): entity.nodes() are its two end points, kept in a
\* dict (an end node equal to the start node is not pulled a second time),
\* then the relationship itself
Graph_pull_rel(N, C, R, RC, r, ansS, ansE, ansR) ==
  Pull_end(N, R, RC, r, ansE, ansR, Graph_pull_node(N, C, R[r].start, ansS))

---------------------------------------------------------------------------
(* The specifications share the variables; each leaves the others' idle *)

IdleEntityValues ==
  /\ node = [n \in NodeIds |-> DeadNode]
  /\ nodeCache = [u \in NodeRefs |-> None]
  /\ rel = [r \in RelIds |-> DeadRel]
  /\ relCache = [u \in RelRefs |-> None]
  /\ ops = 0
  /\ ctx = <<>>

IdleSubgraph ==
  /\ sgA = [nodes |-> {}, rels |-> {}]
  /\ sgOp = "none"
  /\ sgAdded = FALSE

IdleWalk ==
  /\ wArgs = <<>>
  /\ wOut = [ok |-> TRUE, seq |-> <<>>]
  /\ wOp = "none"
  /\ wWalk = <<>>

IdleGraph ==
  /\ gNode = <<>>
  /\ IdleSubgraph
  /\ IdleWalk

---------------------------------------------------------------------------
(* The operations of one execution context *)

\* what the last operation was: its name, the instance it returned or acted
\* on, how it met the cache, the instance the cache held for the reference
\* before, the payload it carried, the pulls it issued and whether the group
\* it read was stale on a bound entity
Last(op, ret, kind, prev, p, l, t, pulls, was) ==
  [op |-> op, ret |-> ret, kind |-> kind, prev |-> prev, p |-> p, l |-> l, t |-> t, pulls |-> pulls, was |-> was]

NoLast == Last("init", None, "none", None, Absent, Absent, None, 0, FALSE)

InitEntity ==
  /\ node = [n \in NodeIds |-> DeadNode]
  /\ nodeCache = [u \in NodeRefs |-> None]
  /\ rel = [r \in RelIds |-> DeadRel]
  /\ relCache = [u \in RelRefs |-> None]
  /\ last = NoLast
  /\ ops = 0
  /\ ctx = <<>>
  /\ IdleGraph

\* every operation of the context counts against the length of the run
Tick == ops < MaxOps /\ ops' = ops + 1 /\ UNCHANGED <<ctx, gNode, subgraphVars, walkVars>>

\* Node(*labels, **properties)
NewNode(l, p) ==
  /\ Tick
  /\ FreeNode(node) # None
  /\ node' = [node EXCEPT ![FreeNode(node)] = Node___init__(l, p)]
  /\ last' = Last("Node", FreeNode(node), "local", None, p, l, None, 0, FALSE)
  /\ UNCHANGED <<nodeCache, rel, relCache>>

\* Relationship(a, t, b, **properties)
NewRel(a, t, b, p) ==
  /\ Tick
  /\ FreeRel(rel) # None
  /\ node[a].live /\ node[b].live
  /\ rel' = [rel EXCEPT ![FreeRel(rel)] = Relationship___init__(a, t, b, p)]
  /\ last' = Last("Relationship", FreeRel(rel), "local", None, p, Absent, t, 0, FALSE)
  /\ UNCHANGED <<node, nodeCache, relCache>>

\* how a hydration meets the cache and the instance's binding
Kind(inst, cached, uri, ref) ==
  IF inst = None THEN (IF cached = None THEN "new" ELSE "hit")
  ELSE IF uri = NoRef THEN "bind"
  ELSE IF uri = ref THEN "same" ELSE "rebind"

HydrateNode(ref, p, l, inst) ==
  LET h == Node_hydrate(node, nodeCache, ref, p, l, inst)
  IN /\ Tick
     /\ inst # None => node[inst].live
     /\ ~h.full
     /\ node' = h.node
     /\ nodeCache' = h.cache
     /\ last' = Last("Node.hydrate", h.inst,
                     Kind(inst, nodeCache[ref], IF inst = None THEN NoRef ELSE node[inst].uri, ref),
                     nodeCache[ref],
                     p, l, None, 0, FALSE)
     /\ UNCHANGED <<rel, relCache>>

HydrateRel(ref, s, e, t, d, inst) ==
  LET h == Relationship_hydrate(node, nodeCache, rel, relCache, ref, s, e, t, d, inst)
  IN /\ Tick
     /\ inst # None => rel[inst].live
     /\ ~h.full
     /\ node' = h.node
     /\ nodeCache' = h.cache
     /\ rel' = h.rel
     /\ relCache' = h.rcache
     /\ last' = Last("Relationship.hydrate", h.inst,
                     Kind(inst, relCache[ref], IF inst = None THEN NoRef ELSE rel[inst].uri, ref),
                     relCache[ref],
                     d, Absent, t, 0, FALSE)

\* Node._unbind: del self.cache[self.uri], then Entity._unbind
UnbindNode(n) ==
  /\ Tick
  /\ node[n].live /\ bound(node[n])
  /\ nodeCache' = [nodeCache EXCEPT ![node[n].uri] = None]
  /\ node' = [node EXCEPT ![n].uri = NoRef]
  /\ last' = Last("Node._unbind", n, "none", None, Absent, Absent, None, 0, FALSE)
  /\ UNCHANGED <<rel, relCache>>

\* Relationship._unbind
UnbindRel(r) ==
  /\ Tick
  /\ rel[r].live /\ bound(rel[r])
  /\ relCache' = [relCache EXCEPT ![rel[r].uri] = None]
  /\ rel' = [rel EXCEPT ![r].uri = NoRef]
  /\ last' = Last("Relationship._unbind", r, "none", None, Absent, Absent, None, 0, FALSE)
  /\ UNCHANGED <<node, nodeCache>>

\* the program lets go of a node no relationship holds: the weak cache forgets it
DropNode(n) ==
  /\ Tick
  /\ node[n].live
  /\ \A r \in RelIds : rel[r].live => rel[r].start # n /\ rel[r].end # n
  /\ node' = Collect(node, nodeCache, {n}).node
  /\ nodeCache' = Collect(node, nodeCache, {n}).cache
  /\ last' = NoLast
  /\ UNCHANGED <<rel, relCache>>

DropRel(r) ==
  /\ Tick
  /\ rel[r].live
  /\ rel' = [rel EXCEPT ![r] = DeadRel]
  /\ relCache' = [u \in RelRefs |-> IF relCache[u] = r THEN None ELSE relCache[u]]
  /\ last' = NoLast
  /\ UNCHANGED <<node, nodeCache>>

\* Node.__getitem__ (and Node.properties): pull when bound and stale, then read
Node___getitem__(n, ans) ==
  LET was == bound(node[n]) /\ "properties" \in node[n].stale
      g == Graph_pull_node(node, nodeCache, n, ans)
  IN /\ Tick
     /\ node[n].live
     /\ was \/ ans = NoNodeAnswer
     /\ node' = IF was THEN g.node ELSE node
     /\ nodeCache' = IF was THEN g.cache ELSE nodeCache
     /\ last' = Last("Node.__getitem__", n, "none", None, Absent, Absent, None, IF was THEN 1 ELSE 0, was)
     /\ UNCHANGED <<rel, relCache>>

\* Node.labels()
Node_labels(n, ans) ==
  LET was == bound(node[n]) /\ "labels" \in node[n].stale
      g == Graph_pull_node(node, nodeCache, n, ans)
  IN /\ Tick
     /\ node[n].live
     /\ was \/ ans = NoNodeAnswer
     /\ node' = IF was THEN g.node ELSE node
     /\ nodeCache' = IF was THEN g.cache ELSE nodeCache
     /\ last' = Last("Node.labels", n, "none", None, Absent, Absent, None, IF was THEN 1 ELSE 0, was)
     /\ UNCHANGED <<rel, relCache>>

\* Relationship.properties: pull when bound and stale, then read
Relationship_properties(r, ansS, ansE, ansR) ==
  LET was == bound(rel[r]) /\ "properties" \in rel[r].stale
      g == Graph_pull_rel(node, nodeCache, rel, relCache, r, ansS, ansE, ansR)
  IN /\ Tick
     /\ rel[r].live
     /\ was => bound(node[rel[r].start]) /\ bound(node[rel[r].end])
     /\ was \/ (ansS = NoNodeAnswer /\ ansE = NoNodeAnswer /\ ansR = NoRelAnswer)
     /\ node' = IF was THEN g.node ELSE node
     /\ nodeCache' = IF was THEN g.cache ELSE nodeCache
     /\ rel' = IF was THEN g.rel ELSE rel
     /\ relCache' = IF was THEN g.rcache ELSE relCache
     /\ last' = Last("Relationship.properties", r, "none", None, Absent, Absent, None, IF was THEN 1 ELSE 0, was)

\* Relationship.type(): pull when bound and the type is None, then read
Relationship_type(r, ansS, ansE, ansR) ==
  LET was == bound(rel[r]) /\ rel[r].type = None
      g == Graph_pull_rel(node, nodeCache, rel, relCache, r, ansS, ansE, ansR)
  IN /\ Tick
     /\ rel[r].live
     /\ was => bound(node[rel[r].start]) /\ bound(node[rel[r].end])
     /\ was \/ (ansS = NoNodeAnswer /\ ansE = NoNodeAnswer /\ ansR = NoRelAnswer)
     /\ node' = IF was THEN g.node ELSE node
     /\ nodeCache' = IF was THEN g.cache ELSE nodeCache
     /\ rel' = IF was THEN g.rel ELSE rel
     /\ relCache' = IF was THEN g.rcache ELSE relCache
     /\ last' = Last("Relationship.type", r, "none", None, Absent, Absent, None, IF was THEN 1 ELSE 0, was)

NextEntity ==
  \/ \E l \in LabelVals, p \in PropVals : NewNode(l, p)
  \/ \E a \in NodeIds, b \in NodeIds, t \in Types, p \in PropVals : NewRel(a, t, b, p)
  \/ \E ref \in NodeRefs, p \in PropVals \cup {Absent}, l \in LabelVals \cup {Absent}, inst \in NodeIds \cup {None} :
       HydrateNode(ref, p, l, inst)
  \/ \E ref \in RelRefs, s \in NodeRefs, e \in NodeRefs, t \in Types \cup {None}, d \in PropVals \cup {Absent}, inst \in RelIds \cup {None} :
       HydrateRel(ref, s, e, t, d, inst)
  \/ \E n \in NodeIds : UnbindNode(n)
  \/ \E r \in RelIds : UnbindRel(r)
  \/ \E n \in NodeIds : DropNode(n)
  \/ \E r \in RelIds : DropRel(r)
  \/ \E n \in NodeIds, ans \in NodeAnswers : Node___getitem__(n, ans)
  \/ \E n \in NodeIds, ans \in NodeAnswers : Node_labels(n, ans)
  \/ \E r \in RelIds, ansS \in NodeAnswers, ansE \in NodeAnswers, ansR \in RelAnswers : Relationship_properties(r, ansS, ansE, ansR)
  \/ \E r \in RelIds, ansS \in NodeAnswers, ansE \in NodeAnswers, ansR \in RelAnswers : Relationship_type(r, ansS, ansE, ansR)

SpecEntity == InitEntity /\ [][NextEntity]_vars

---------------------------------------------------------------------------
(* Claims about the identity cache and staleness *)

\* C1: in one context, at most one live Node instance and at most one live
\* Relationship instance is bound to any given remote reference.
C1_OneInstancePerReference ==
  /\ \A a \in NodeIds, b \in NodeIds :
       (node[a].live /\ node[b].live /\ bound(node[a]) /\ node[a].uri = node[b].uri) => a = b
  /\ \A a \in RelIds, b \in RelIds :
       (rel[a].live /\ rel[b].live /\ bound(rel[a]) /\ rel[a].uri = rel[b].uri) => a = b

\* C2: hydrating a reference again without an explicit instance, the first
\* result being live, returns that same instance, and afterwards its fields
\* hold the values of the second payload (Node: properties and labels;
\* Relationship: properties and type).
C2_RehydrateOverwrites ==
  last.kind = "hit" =>
    /\ last.ret = last.prev
    /\ last.op = "Node.hydrate" =>
         /\ last.p # Absent => node[last.ret].props = last.p
         /\ last.l # Absent => node[last.ret].labels = last.l
    /\ last.op = "Relationship.hydrate" =>
         /\ last.p # Absent => rel[last.ret].props = last.p
         /\ last.t # None => rel[last.ret].type = last.t

\* C3: an instance newly created by hydration from a record with a reference
\* only has every field group stale, and a field group the payload supplies
\* is fresh and holds the payload's value.
C3_NewInstanceStaleness ==
  last.kind = "new" =>
    /\ last.op = "Node.hydrate" =>
         /\ (last.p = Absent /\ last.l = Absent) => node[last.ret].stale = {"labels", "properties"}
         /\ last.p # Absent => ("properties" \notin node[last.ret].stale /\ node[last.ret].props = last.p)
         /\ last.l # Absent => ("labels" \notin node[last.ret].stale /\ node[last.ret].labels = last.l)
    /\ last.op = "Relationship.hydrate" =>
         /\ (last.p = Absent /\ last.t = None) =>
              ("properties" \in rel[last.ret].stale /\ rel[last.ret].type = None)
         /\ last.p # Absent => ("properties" \notin rel[last.ret].stale /\ rel[last.ret].props = last.p)
         /\ last.t # None => rel[last.ret].type = last.t

\* C4: the first access to a stale property group of a bound Node or
\* Relationship issues exactly one pull and leaves the group fresh, and an
\* access to a group that is not stale issues none.
C4_StaleAccessRefreshesOnce ==
  /\ last.op = "Node.__getitem__" =>
       IF last.was THEN last.pulls = 1 /\ "properties" \notin node[last.ret].stale ELSE last.pulls = 0
  /\ last.op = "Relationship.properties" =>
       IF last.was THEN last.pulls = 1 /\ "properties" \notin rel[last.ret].stale ELSE last.pulls = 0

\* C5: after an existing bound instance is hydrated with a record for another
\* reference, every field group the payload does not include is stale
\* (Node: labels, properties; Relationship: properties, type).
C5_RebindResetsStaleness ==
  last.kind = "rebind" =>
    /\ last.op = "Node.hydrate" =>
         /\ last.p = Absent => "properties" \in node[last.ret].stale
         /\ last.l = Absent => "labels" \in node[last.ret].stale
    /\ last.op = "Relationship.hydrate" =>
         /\ last.p = Absent => "properties" \in rel[last.ret].stale
         /\ last.t = None => rel[last.ret].type = None

---------------------------------------------------------------------------
(* A local graph: node instances with any binding, and unbound             *)
(* relationships between them, for the Subgraph algebra and for traverse   *)

MaxGraphNodes == 3  \* node instances of the local graph

MaxGraphRef == 2    \* remote references its nodes may be bound to

GraphNodeIds == 1..MaxGraphNodes

GraphRelIds == 1..(MaxGraphNodes - 1)

\* the relationships of the local graph, Relationship(a, "T", b): they point
\* from the odd node to the even one: 1 -> 2, 3 -> 2, 3 -> 4, ...
GraphRel(k) ==
  IF k % 2 = 1 THEN Relationship___init__(k, 1, k + 1, 0) ELSE Relationship___init__(k + 1, 1, k, 0)

GraphNode(u) == [Node___init__(0, 0) EXCEPT !.uri = u]

\* the nodes of the local graph are all Node(), with the same labels and the
\* same properties, each unbound or bound; references are interchangeable
\* names, so a reference is first used only after the ones before it
GraphBindings ==
  {N \in [GraphNodeIds -> {GraphNode(u) : u \in 0..MaxGraphRef}] :
     \A n \in GraphNodeIds : N[n].uri > 1 => \E m \in 1..(n - 1) : N[m].uri = N[n].uri - 1}

\* PropertyRelationship.__eq__ and __hash__ of two unbound relationships:
\* the node tuples, the types and the properties are equal
Relationship___eq__(N, a, b) ==
  /\ Node___eq__(N, GraphRel(a).start, GraphRel(b).start)
  /\ Node___eq__(N, GraphRel(a).end, GraphRel(b).end)
  /\ GraphRel(a).type = GraphRel(b).type
  /\ GraphRel(a).props = GraphRel(b).props

\* frozenset(nodes): equal members are kept once (the least instance stands
\* for the ones equal to it)
FrozenNodes(N, ns) ==
  {CHOOSE m \in GraphNodeIds : Node___eq__(N, m, n) /\ \A j \in GraphNodeIds : Node___eq__(N, j, n) => m <= j : n \in ns}

FrozenRels(N, rs) ==
  {CHOOSE m \in GraphRelIds : Relationship___eq__(N, m, r) /\ \A j \in GraphRelIds : Relationship___eq__(N, j, r) => m <= j : r \in rs}

\* r.nodes() of the relationships of a set
EndNodes(rs) == {GraphRel(r).start : r \in rs} \cup {GraphRel(r).end : r \in rs}

---------------------------------------------------------------------------
(* Subgraph *)

\* Subgraph.__init__ without its last line: the nodes of the relationships are not added
Subgraph___init__NoClosure(N, ns, rs) ==
  [nodes |-> FrozenNodes(N, ns), rels |-> FrozenRels(N, rs)]

\* Subgraph.__init__(nodes, relationships)
Subgraph___init__(N, ns, rs) ==
  [nodes |-> FrozenNodes(N, ns \cup EndNodes(FrozenRels(N, rs))), rels |-> FrozenRels(N, rs)]

\* Subgraph.__eq__
Subgraph___eq__(A, B) == A.nodes = B.nodes /\ A.rels = B.rels

\* Subgraph.order()
order(A) == Cardinality(A.nodes)

\* Subgraph.size()
size(A) == Cardinality(A.rels)

\* Subgraph.__or__
Subgraph___or__(N, A, B) == Subgraph___init__(N, A.nodes \cup B.nodes, A.rels \cup B.rels)

\* Subgraph.__and__ that keeps all the relationships of self
Subgraph___and__KeepsSelf(N, A, B) == Subgraph___init__(N, A.nodes \cap B.nodes, A.rels)

\* Subgraph.__and__
Subgraph___and__(N, A, B) == Subgraph___init__(N, A.nodes \cap B.nodes, A.rels \cap B.rels)

\* Subgraph.__sub__
Subgraph___sub__(N, A, B) ==
  Subgraph___init__(N, (A.nodes \ B.nodes) \cup EndNodes(A.rels \ B.rels), A.rels \ B.rels)

\* the symmetric difference of two sets (Python's ^)
SymDiff(X, Y) == (X \ Y) \cup (Y \ X)

\* Subgraph.__xor__
Subgraph___xor__(N, A, B) ==
  Subgraph___init__(N, SymDiff(A.nodes, B.nodes) \cup EndNodes(SymDiff(A.rels, B.rels)), SymDiff(A.rels, B.rels))

\* every Subgraph the constructor yields over the local graph
Subgraphs(N) == {Subgraph___init__(N, ns, rs) : ns \in SUBSET GraphNodeIds, rs \in SUBSET GraphRelIds}

\* the frame of the Subgraph operations
SubgraphFrame == UNCHANGED <<entityVars, gNode, walkVars>>

InitSubgraph ==
  /\ IdleEntityValues
  /\ last = NoLast
  /\ gNode \in GraphBindings
  /\ IdleSubgraph
  /\ IdleWalk

\* Subgraph(nodes, relationships)
NewSubgraph(ns, rs) ==
  /\ sgA' = Subgraph___init__(gNode, ns, rs)
  /\ sgOp' = "Subgraph"
  /\ sgAdded' = (Subgraph___init__(gNode, ns, rs).nodes # FrozenNodes(gNode, ns))
  /\ SubgraphFrame

\* a | b
Or(B) ==
  /\ sgA' = Subgraph___or__(gNode, sgA, B)
  /\ sgOp' = "__or__"
  /\ sgAdded' = FALSE
  /\ SubgraphFrame

\* a & b
And(B) ==
  /\ sgA' = Subgraph___and__(gNode, sgA, B)
  /\ sgOp' = "__and__"
  /\ sgAdded' = FALSE
  /\ SubgraphFrame

\* a - b; sgAdded: a node of b is in the result, as the end of a relationship kept
Sub(B) ==
  /\ sgA' = Subgraph___sub__(gNode, sgA, B)
  /\ sgOp' = "__sub__"
  /\ sgAdded' = (Subgraph___sub__(gNode, sgA, B).nodes \cap B.nodes # {})
  /\ SubgraphFrame

\* a ^ b; sgAdded: a node of both is in the result, as the end of a relationship kept
Xor(B) ==
  /\ sgA' = Subgraph___xor__(gNode, sgA, B)
  /\ sgOp' = "__xor__"
  /\ sgAdded' = (Subgraph___xor__(gNode, sgA, B).nodes \cap (sgA.nodes \cap B.nodes) # {})
  /\ SubgraphFrame

NextSubgraph ==
  \/ \E ns \in SUBSET GraphNodeIds, rs \in SUBSET GraphRelIds : NewSubgraph(ns, rs)
  \/ \E B \in Subgraphs(gNode) : Or(B)
  \/ \E B \in Subgraphs(gNode) : And(B)
  \/ \E B \in Subgraphs(gNode) : Sub(B)
  \/ \E B \in Subgraphs(gNode) : Xor(B)

SpecSubgraph == InitSubgraph /\ [][NextSubgraph]_vars

\* C6: every Subgraph, constructed or produced by any sequence of |, &, - and ^,
\* holds in its node set both end nodes of each of its relationships.
C6_Closure ==
  \A r \in sgA.rels :
    /\ \E n \in sgA.nodes : Node___eq__(gNode, n, GraphRel(r).start)
    /\ \E n \in sgA.nodes : Node___eq__(gNode, n, GraphRel(r).end)

\* C6 witness: an operation has produced a Subgraph with a relationship whose
\* end nodes had to be added to the node set
C6_ClosureWitness ==
  /\ sgOp \in {"Subgraph", "__sub__", "__xor__"}
  /\ sgAdded
  /\ sgA.rels # {}

---------------------------------------------------------------------------
(* Walks: TraversableSubgraph, Path and traverse *)

MaxArgs == 3   \* objects passed to one call of traverse or Path

MaxWalk == 5   \* entities of a walk that is kept

NodeItem(n) == [k |-> "n", id |-> n]

RelItem(r) == [k |-> "r", id |-> r]

\* the sequence of a node: the node itself
Node_traverse(n) == <<NodeItem(n)>>

\* the sequence of a relationship: start node, relationship, end node
Relationship_traverse(r) == <<NodeItem(GraphRel(r).start), RelItem(r), NodeItem(GraphRel(r).end)>>

\* TraversableSubgraph.start_node(): the first of the node sequence
start_node(x) == x[1].id

\* TraversableSubgraph.end_node(): the last of the node sequence
end_node(x) == x[2 * ((Len(x) + 1) \div 2) - 1].id

\* reversed(list(traversable.traverse())) that leaves the order as it is
reversedKeepsOrder(x) == x

\* reversed(list(traversable.traverse()))
reversed(x) == [i \in 1..Len(x) |-> x[Len(x) + 1 - i]]

\* the entities with enumerate index i > 0
AfterFirst(x) == SubSeq(x, 2, Len(x))

\* the body of the try block of traverse where the last branch appends as the first does
traverse_stepNoError(N, cursor, x) ==
  IF Node___eq__(N, cursor, end_node(x)) /\ ~Node___eq__(N, cursor, start_node(x))
  THEN [ok |-> TRUE, entities |-> reversed(x), end_node |-> start_node(x)]
  ELSE [ok |-> TRUE, entities |-> x, end_node |-> end_node(x)]

\* the body of the try block of traverse: the entities to yield and the new end_node
traverse_step(N, cursor, x) ==
  IF Node___eq__(N, cursor, start_node(x)) THEN [ok |-> TRUE, entities |-> x, end_node |-> end_node(x)]
  ELSE IF Node___eq__(N, cursor, end_node(x)) THEN [ok |-> TRUE, entities |-> reversed(x), end_node |-> start_node(x)]
  ELSE [ok |-> FALSE, entities |-> <<>>, end_node |-> cursor]

RECURSIVE traverse_loop(_, _, _, _, _)

\* one round of the loop of traverse: raise, or yield and go on
traverse_round(N, xs, i, acc, step) ==
  IF step.ok THEN traverse_loop(N, xs, i + 1, step.end_node, acc \o AfterFirst(step.entities))
  ELSE [ok |-> FALSE, seq |-> acc]

\* the loop of traverse over traversables[1:]; acc is what has been yielded
traverse_loop(N, xs, i, cursor, acc) ==
  IF i > Len(xs) THEN [ok |-> TRUE, seq |-> acc]
  ELSE traverse_round(N, xs, i, acc, traverse_step(N, cursor, xs[i]))

\* traverse(*traversables): ok is FALSE when ValueError is raised, seq is
\* what is yielded (before the error, if any)
traverse(N, xs) ==
  IF xs = <<>> THEN [ok |-> TRUE, seq |-> <<>>]
  ELSE traverse_loop(N, xs, 2, end_node(xs[1]), xs[1])

\* the walk a constructor builds from tuple(traverse(...)), None when it raises
Built(out, old) == IF out.ok THEN out.seq ELSE old

\* the nodes and relationships of the local graph, as traversables
Entities == {Node_traverse(n) : n \in GraphNodeIds} \cup {Relationship_traverse(r) : r \in GraphRelIds}

\* the sequences of the Paths that Path(x, y) builds from two entities
Paths(N) == {traverse(N, xs).seq : xs \in {ys \in [1..2 -> Entities] : traverse(N, ys).ok}}

\* the argument lists of a call, over the traversables T
ArgLists(T) == UNION {[1..k -> T] : k \in 1..MaxArgs}

WalkFrame == UNCHANGED <<entityVars, gNode, subgraphVars>>

\* the arguments of one call of traverse: entities and Paths of the local graph
InitTraverse ==
  /\ IdleEntityValues
  /\ last = NoLast
  /\ gNode \in GraphBindings
  /\ IdleSubgraph
  /\ wArgs \in ArgLists(Entities \cup Paths(gNode))
  /\ wOut = [ok |-> TRUE, seq |-> <<>>]
  /\ wOp = "none"
  /\ wWalk = <<>>

\* tuple(traverse(*wArgs))
Traverse ==
  /\ wOp = "none"
  /\ wOut' = traverse(gNode, wArgs)
  /\ wOp' = "traverse"
  /\ UNCHANGED <<wArgs, wWalk>>
  /\ WalkFrame

NextTraverse == Traverse

SpecTraverse == InitTraverse /\ [][NextTraverse]_vars

InitWalk ==
  /\ IdleEntityValues
  /\ last = NoLast
  /\ gNode \in GraphBindings
  /\ IdleSubgraph
  /\ IdleWalk

\* p = Path(*xs), xs entities: the first two passes of Path.__init__ leave
\* entities as they are, the third is tuple(traverse(*entities))
NewPath(xs) ==
  /\ Len(traverse(gNode, xs).seq) <= MaxWalk
  /\ wArgs' = xs
  /\ wOut' = traverse(gNode, xs)
  /\ wOp' = "Path"
  /\ wWalk' = Built(traverse(gNode, xs), wWalk)
  /\ WalkFrame

\* p = p + x
Add(x) ==
  /\ wWalk # <<>>
  /\ Len(traverse(gNode, <<wWalk, x>>).seq) <= MaxWalk
  /\ wArgs' = <<wWalk, x>>
  /\ wOut' = traverse(gNode, <<wWalk, x>>)
  /\ wOp' = "__add__"
  /\ wWalk' = Built(traverse(gNode, <<wWalk, x>>), wWalk)
  /\ WalkFrame

NextWalk ==
  \/ \E xs \in ArgLists(Entities) : NewPath(xs)
  \/ \E x \in Entities : Add(x)

SpecWalk == InitWalk /\ [][NextWalk]_vars

---------------------------------------------------------------------------
(* Claims about traverse *)

\* a sequence read from its last element to its first
Backwards(x) == [i \in 1..Len(x) |-> x[Len(x) + 1 - i]]

RECURSIVE CursorAfter(_, _, _)

\* the cursor once the first i objects are spliced: the end node of the
\* first object, then the far end of each object from where it was joined
CursorAfter(N, xs, i) ==
  IF i = 1 THEN xs[1][Len(xs[1])].id
  ELSE IF Node___eq__(N, CursorAfter(N, xs, i - 1), xs[i][1].id) THEN xs[i][Len(xs[i])].id
  ELSE xs[i][1].id

\* object i starts or ends where the cursor is
Joins(N, xs, i) ==
  \/ Node___eq__(N, CursorAfter(N, xs, i - 1), xs[i][1].id)
  \/ Node___eq__(N, CursorAfter(N, xs, i - 1), xs[i][Len(xs[i])].id)

Contiguous(N, xs) == \A i \in 2..Len(xs) : Joins(N, xs, i)

\* two sequences of the same length whose nodes are equal and whose
\* relationships are the same, position by position
SameWalk(N, s, t) ==
  /\ Len(s) = Len(t)
  /\ \A i \in 1..Len(s) :
       /\ s[i].k = t[i].k
       /\ IF s[i].k = "n" THEN Node___eq__(N, s[i].id, t[i].id) ELSE s[i].id = t[i].id

RECURSIVE Spliced(_, _, _)

\* the walk of the first i objects
Spliced(N, xs, i) ==
  IF i = 1 THEN xs[1]
  ELSE IF Node___eq__(N, CursorAfter(N, xs, i - 1), xs[i][1].id) THEN Spliced(N, xs, i - 1) \o Tail(xs[i])
  ELSE Spliced(N, xs, i - 1) \o Tail(Backwards(xs[i]))

\* C8: traverse on contiguous inputs yields the first object's sequence and
\* then, for each later object, its sequence without the first element when
\* the cursor equals its start node, else its reversed sequence without the
\* first element; a single input is returned unchanged, and for r1 = (a -> b),
\* r2 = (c -> b) traverse(Path(a, r1, b), Path(c, r2, b)) yields a, r1, b, r2, c.
\* (In the local graph a, b, c are the nodes 1, 2, 3 and r1, r2 the
\* relationships 1, 2; Path(a, r1, b) has the sequence of r1, Path(c, r2, b)
\* that of r2.)
C8_TraverseSplices ==
  wOp = "traverse" =>
    /\ Contiguous(gNode, wArgs) => wOut.ok /\ wOut.seq = Spliced(gNode, wArgs, Len(wArgs))
    /\ Len(wArgs) = 1 => wOut.ok /\ wOut.seq = wArgs[1]
    /\ wArgs = <<Relationship_traverse(1), Relationship_traverse(2)>> =>
         /\ wOut.ok
         /\ SameWalk(gNode, wOut.seq, <<NodeItem(1), RelItem(1), NodeItem(2), RelItem(2), NodeItem(3)>>)
         /\ ~Node___eq__(gNode, 2, 3) =>
              wOut.seq = <<NodeItem(1), RelItem(1), NodeItem(2), RelItem(2), NodeItem(3)>>

\* C8 witness: a call with three contiguous objects where one is joined at
\* its end node and another at its start node
C8_TraverseSplicesWitness ==
  /\ wOp = "traverse"
  /\ Len(wArgs) = 3
  /\ Contiguous(gNode, wArgs)
  /\ \E i \in 2..3 : ~Node___eq__(gNode, CursorAfter(gNode, wArgs, i - 1), wArgs[i][1].id) /\ Len(wArgs[i]) > 1
  /\ \E i \in 2..3 : Node___eq__(gNode, CursorAfter(gNode, wArgs, i - 1), wArgs[i][1].id) /\ Len(wArgs[i]) > 1
  /\ Len(wOut.seq) >= 5

\* C9: when an object after the first has neither its start node nor its end
\* node equal to the cursor, composition fails; Path(...) and walk + walk on
\* such input produce no walk, and the operands are left unchanged.
C9_NonContiguousFails ==
  [][(wOp' \in {"Path", "__add__"} /\ ~Contiguous(gNode', wArgs')) =>
       (~wOut'.ok /\ wWalk' = wWalk /\ gNode' = gNode)]_vars

\* C9 witness: walk + relationship has failed on a walk of two
\* relationships, which is still held
C9_NonContiguousFailsWitness ==
  /\ wOp = "__add__"
  /\ ~wOut.ok
  /\ ~Contiguous(gNode, wArgs)
  /\ wWalk = wArgs[1]
  /\ Len(wWalk) = 5

\* C10: the contiguity test compares nodes by entity identity: two bound
\* nodes are equal exactly when bound to the same reference, two unbound
\* nodes exactly when they are the same instance, and two distinct unbound
\* nodes with identical labels and properties are never contiguous.
C10_ContiguityByIdentity ==
  (wOp = "traverse" /\ Len(wArgs) = 2 /\ Len(wArgs[2]) = 1) =>
    /\ (bound(gNode[end_node(wArgs[1])]) /\ bound(gNode[start_node(wArgs[2])])) =>
         (wOut.ok <=> gNode[end_node(wArgs[1])].uri = gNode[start_node(wArgs[2])].uri)
    /\ (~bound(gNode[end_node(wArgs[1])]) /\ ~bound(gNode[start_node(wArgs[2])])) =>
         (wOut.ok <=> end_node(wArgs[1]) = start_node(wArgs[2]))
    /\ (/\ ~bound(gNode[end_node(wArgs[1])]) /\ ~bound(gNode[start_node(wArgs[2])])
        /\ end_node(wArgs[1]) # start_node(wArgs[2])
        /\ gNode[end_node(wArgs[1])].labels = gNode[start_node(wArgs[2])].labels
        /\ gNode[end_node(wArgs[1])].props = gNode[start_node(wArgs[2])].props) => ~wOut.ok

\* C10 witness: a walk was joined to a different node instance that is bound
\* to the same reference as the walk's end node
C10_ContiguityByIdentityWitness ==
  /\ wOp = "traverse"
  /\ Len(wArgs) = 2
  /\ Len(wArgs[2]) = 1
  /\ wOut.ok
  /\ end_node(wArgs[1]) # start_node(wArgs[2])
  /\ bound(gNode[end_node(wArgs[1])])

---------------------------------------------------------------------------
(* Path construction from entities and fillers, and indexing *)

MaxPathArgs == 5   \* arguments of Path(...) when nodes and relationship specs alternate

MaxIndex == 3      \* walk[i] is called with -MaxIndex <= i <= MaxIndex

\* the arguments of Path(...): a traversable (known by its sequence), a type
\* string, a (type, properties) pair, None, a dict of properties
WalkArg(x) == [k |-> "walk", seq |-> x]

StrArg(t) == [k |-> "str", type |-> t]

PairArg(t, ps) == [k |-> "pair", type |-> t, props |-> ps]

NoneArg == [k |-> "None"]

DictArg(ps) == [k |-> "dict", props |-> ps]

\* the instance Node() or Node(**entity) made for position i
FreshNodeId(i) == MaxGraphNodes + i

\* the node table with the nodes the first pass makes, one slot per position
WithFreshNodes(N, xs) ==
  N \o [i \in 1..Len(xs) |-> Node___init__(0, IF xs[i].k = "dict" THEN xs[i].props ELSE 0)]

\* the first pass of Path.__init__: None and dicts become new nodes
Path_first_pass(xs) ==
  [i \in 1..Len(xs) |-> IF xs[i].k \in {"None", "dict"} THEN WalkArg(Node_traverse(FreshNodeId(i))) ELSE xs[i]]

\* the Relationship(start_node, t, end_node, **properties) made at position i
NewRelItem(i, a, x, b) ==
  [k |-> "new", at |-> i, start |-> a, type |-> x.type, end |-> b,
   props |-> IF x.k = "pair" THEN x.props ELSE 0]

\* the neighbour whose end node is taken: entities[i - 1], which for the
\* first position (index 0) is entities[-1], the last entity
Before(es, i) == IF i = 1 THEN Len(es) ELSE i - 1

\* one round of the second pass where the new relationship starts at the
\* start node of the entity before it
Path_resolve_atFromStart(es, i) ==
  IF i < Len(es) /\ es[Before(es, i)].k = "walk" /\ es[i + 1].k = "walk" /\ es[i].k \in {"str", "pair"}
  THEN [es EXCEPT ![i] = WalkArg(<<NodeItem(start_node(es[Before(es, i)].seq)),
                                    NewRelItem(i, start_node(es[Before(es, i)].seq), es[i], start_node(es[i + 1].seq)),
                                    NodeItem(start_node(es[i + 1].seq))>>)]
  ELSE es

\* one round of the second pass: with both neighbours traversable, a type
\* string or a pair becomes a Relationship; IndexError and AttributeError pass
Path_resolve_at(es, i) ==
  IF i < Len(es) /\ es[Before(es, i)].k = "walk" /\ es[i + 1].k = "walk" /\ es[i].k \in {"str", "pair"}
  THEN [es EXCEPT ![i] = WalkArg(<<NodeItem(end_node(es[Before(es, i)].seq)),
                                    NewRelItem(i, end_node(es[Before(es, i)].seq), es[i], start_node(es[i + 1].seq)),
                                    NodeItem(start_node(es[i + 1].seq))>>)]
  ELSE es

RECURSIVE Path_second_pass(_, _)

\* the second pass of Path.__init__, from position i on
Path_second_pass(es, i) ==
  IF i > Len(es) THEN es ELSE Path_second_pass(Path_resolve_at(es, i), i + 1)

\* the position of the first entity that is not traversable, 0 if all are
FirstNotTraversable(es) ==
  IF \A i \in 1..Len(es) : es[i].k = "walk" THEN 0
  ELSE CHOOSE i \in 1..Len(es) : es[i].k # "walk" /\ \A j \in 1..(i - 1) : es[j].k = "walk"

\* the sequences of the first n entities
SequencesOf(es, n) == [i \in 1..n |-> es[i].seq]

\* tuple(traverse(*entities)) where f is the first entity not traversable:
\* traverse raises ValueError where the walk breaks, TypeError at f
Path_traverse(N, es, f) ==
  IF f = 1 THEN [ok |-> FALSE, seq |-> <<>>, err |-> "TypeError"]
  ELSE IF ~traverse(N, SequencesOf(es, IF f = 0 THEN Len(es) ELSE f - 1)).ok
  THEN [ok |-> FALSE, seq |-> <<>>, err |-> "ValueError"]
  ELSE IF f # 0 THEN [ok |-> FALSE, seq |-> <<>>, err |-> "TypeError"]
  ELSE [ok |-> TRUE, seq |-> traverse(N, SequencesOf(es, Len(es))).seq, err |-> "none"]

Path_third_pass(N, es) == Path_traverse(N, es, FirstNotTraversable(es))

\* Path.__init__(*entities)
Path___init__(N, xs) ==
  Path_third_pass(WithFreshNodes(N, xs), Path_second_pass(Path_first_pass(xs), 1))

\* TraversableSubgraph.__len__
TraversableSubgraph___len__(x) == (Len(x) - 1) \div 2

\* TraversableSubgraph.nodes(): sequence[0::2]
TraversableSubgraph_nodes(x) == [i \in 1..((Len(x) + 1) \div 2) |-> x[2 * i - 1]]

\* TraversableSubgraph.__getitem__(index) for an integer: Python counts a
\* negative position from the end of the tuple
TraversableSubgraph___getitem__(x, index) ==
  IF index < 0
  THEN (IF Len(x) + 2 * index >= 0
        THEN [ok |-> TRUE, seq |-> <<x[Len(x) + 2 * index + 1]>>, err |-> "none"]
        ELSE [ok |-> FALSE, seq |-> <<>>, err |-> "IndexError"])
  ELSE (IF 2 * index + 1 < Len(x)
        THEN [ok |-> TRUE, seq |-> <<x[2 * index + 2]>>, err |-> "none"]
        ELSE [ok |-> FALSE, seq |-> <<>>, err |-> "IndexError"])

\* what Path(...) is called with
PathArgs(N) ==
  {WalkArg(x) : x \in Entities \cup Paths(N)} \cup {StrArg(t) : t \in Types}
    \cup {PairArg(t, ps) : t \in Types, ps \in PropVals} \cup {NoneArg} \cup {DictArg(ps) : ps \in PropVals}

RelSpecs == {StrArg(t) : t \in Types} \cup {PairArg(t, ps) : t \in Types, ps \in PropVals}

\* argument lists of up to MaxArgs of any kind, and longer ones where single
\* entities and relationship specs alternate
Alternating(n) ==
  {xs \in [1..n -> {WalkArg(x) : x \in Entities} \cup RelSpecs] :
     \A i \in 1..n : (xs[i].k = "walk") <=> (i % 2 = 1)}

PathArgLists(N) ==
  ArgLists(PathArgs(N)) \cup UNION {Alternating(n) : n \in {m \in (MaxArgs + 1)..MaxPathArgs : m % 2 = 1}}

InitPath ==
  /\ IdleEntityValues
  /\ last = NoLast
  /\ gNode \in GraphBindings
  /\ IdleSubgraph
  /\ wArgs \in PathArgLists(gNode)
  /\ wOut = [ok |-> TRUE, seq |-> <<>>, err |-> "none"]
  /\ wOp = "none"
  /\ wWalk = <<>>

\* p = Path(*wArgs)
PathInit ==
  /\ wOp = "none"
  /\ wOut' = Path___init__(gNode, wArgs)
  /\ wOp' = "Path"
  /\ wWalk' = Built(Path___init__(gNode, wArgs), wWalk)
  /\ UNCHANGED wArgs
  /\ WalkFrame

\* p[i]
GetItem(i) ==
  /\ wOp = "Path"
  /\ wOut.ok
  /\ wArgs' = <<[k |-> "int", i |-> i]>>
  /\ wOut' = TraversableSubgraph___getitem__(wWalk, i)
  /\ wOp' = "__getitem__"
  /\ UNCHANGED wWalk
  /\ WalkFrame

NextPath ==
  \/ PathInit
  \/ \E i \in (0 - MaxIndex)..MaxIndex : GetItem(i)

SpecPath == InitPath /\ [][NextPath]_vars

---------------------------------------------------------------------------
(* Claims about Path construction and indexing *)

\* a relationship spec: a type string or a (type, properties) pair
IsRelSpec(x) == x.k \in {"str", "pair"}

\* an entity that has nodes once the first pass is over
NodeBearing(x) == x.k \in {"walk", "None", "dict"}

\* the first and the last node of the entity at position i
FirstNodeOf(xs, i) == IF xs[i].k = "walk" THEN xs[i].seq[1].id ELSE FreshNodeId(i)

LastNodeOf(xs, i) == IF xs[i].k = "walk" THEN xs[i].seq[Len(xs[i].seq)].id ELSE FreshNodeId(i)

\* the relationship spec at position i has a node-bearing entity on each side
Resolvable(xs, i) ==
  /\ 1 < i
  /\ i < Len(xs)
  /\ NodeBearing(xs[i - 1])
  /\ NodeBearing(xs[i + 1])

\* C11: Path construction resolves every relationship spec into a new
\* Relationship from the end node of the entity just before it to the start
\* node of the entity just after it; Path(a, "KNOWS", b, "KNOWS", c) is a walk
\* of length 2 with nodes() = (a, b, c), and Path(P, type, Q) has length
\* len(P) + len(Q) + 1.
C11_PathResolvesSpecs ==
  wOp = "Path" =>
    /\ wOut.ok =>
         \A i \in 1..Len(wArgs) : (IsRelSpec(wArgs[i]) /\ Resolvable(wArgs, i)) =>
           \E j \in 1..Len(wOut.seq) :
             wOut.seq[j] = [k |-> "new", at |-> i, start |-> LastNodeOf(wArgs, i - 1),
                            type |-> wArgs[i].type, end |-> FirstNodeOf(wArgs, i + 1),
                            props |-> IF wArgs[i].k = "pair" THEN wArgs[i].props ELSE 0]
    /\ (/\ Len(wArgs) = 5
        /\ \A i \in {1, 3, 5} : wArgs[i].k = "walk" /\ Len(wArgs[i].seq) = 1
        /\ \A i \in {2, 4} : wArgs[i].k = "str") =>
         /\ wOut.ok
         /\ TraversableSubgraph___len__(wOut.seq) = 2
         /\ TraversableSubgraph_nodes(wOut.seq) = <<wArgs[1].seq[1], wArgs[3].seq[1], wArgs[5].seq[1]>>
    /\ (Len(wArgs) = 3 /\ wArgs[1].k = "walk" /\ IsRelSpec(wArgs[2]) /\ wArgs[3].k = "walk") =>
         /\ wOut.ok
         /\ (Len(wOut.seq) - 1) \div 2 = (Len(wArgs[1].seq) - 1) \div 2 + (Len(wArgs[3].seq) - 1) \div 2 + 1

\* C11 witness: Path(P, (type, properties), Q) is built where P and Q have
\* relationships and P ends at another node than it starts at
C11_PathResolvesSpecsWitness ==
  /\ wOp = "Path"
  /\ wOut.ok
  /\ Len(wArgs) = 3
  /\ wArgs[1].k = "walk"
  /\ wArgs[2].k = "pair"
  /\ wArgs[3].k = "walk"
  /\ Len(wArgs[1].seq) >= 3
  /\ Len(wArgs[3].seq) >= 3
  /\ wArgs[1].seq[1].id # LastNodeOf(wArgs, 1)

\* C12: Path construction fails for every input in which a relationship spec
\* does not have a node-bearing entity both immediately before it and
\* immediately after it (a spec in first or last position included).
C12_UnresolvableSpecFails ==
  (wOp = "Path" /\ \E i \in 1..Len(wArgs) : IsRelSpec(wArgs[i]) /\ ~Resolvable(wArgs, i)) => ~wOut.ok

\* C20: for a walk of length k, indexing with 0 <= i < k returns the i-th
\* relationship, and indexing with a negative integer (that counts one of the
\* k + 1 nodes from the end) returns a node of the walk.
C20_IndexingWalk ==
  wOp = "__getitem__" =>
    /\ (0 <= wArgs[1].i /\ wArgs[1].i < (Len(wWalk) - 1) \div 2) =>
         wOut.ok /\ wOut.seq = <<wWalk[2 * wArgs[1].i + 2]>>
    /\ (wArgs[1].i < 0 /\ 0 - wArgs[1].i <= (Len(wWalk) + 1) \div 2) =>
         wOut.ok /\ \E j \in 1..Len(wWalk) : j % 2 = 1 /\ wOut.seq = <<wWalk[j]>>

---------------------------------------------------------------------------
(* cast, cast_node, cast_relationship and Relationship(nodes..., properties...) *)

MaxKey == 2        \* property keys are 1..MaxKey
MaxVal == 2        \* property values are 1..MaxVal
MaxStr == 2        \* strings are 1..MaxStr
MaxInt == 1        \* integers are 0..MaxInt
MaxCastNodes == 2  \* Node instances that exist before the call
MaxItems == 2      \* items of a list handed to cast_node
MaxDepth == 2      \* nesting of the lists handed to cast_node
MaxRelArgs == 4    \* positional arguments of Relationship(...)

\* the identity of an instance the call constructs
Fresh == 0

\* the type that default_type() derives from the class name
DefaultType == 0

\* Python values, by kind
PyStr(x) == [k |-> "str", s |-> x]

PyInt(x) == [k |-> "int", i |-> x]

PyDict(m) == [k |-> "dict", map |-> m]

PyList(xs) == [k |-> "list", items |-> xs]

PyTuple(xs) == [k |-> "tuple", items |-> xs]

PyNode(n, u, ls, m) == [k |-> "Node", id |-> n, uri |-> u, labels |-> ls, props |-> m]

PyRel(r, a, t, b, m) == [k |-> "Relationship", id |-> r, start |-> a, type |-> t, end |-> b, props |-> m]

PyPath(xs) == [k |-> "Path", seq |-> xs]

\* the outcome of a call: the value it returns or the exception it raises
Return(v) == [ok |-> TRUE, seq |-> <<v>>, err |-> "none"]

Raise(e) == [ok |-> FALSE, seq |-> <<>>, err |-> e]

\* dict.update: the entries of d replace and extend those of m
dict_update(m, d) == [x \in DOMAIN m \cup DOMAIN d |-> IF x \in DOMAIN d THEN d[x] ELSE m[x]]

Maps == UNION {[D -> 1..MaxVal] : D \in SUBSET (1..MaxKey)}

RECURSIVE apply(_, _)
RECURSIVE apply_items(_, _, _)
RECURSIVE apply_next(_, _, _)
\* apply(x) inside cast_node, on the instance built so far
apply(inst, x) ==
  IF x.k = "dict" THEN Return([inst EXCEPT !.props = dict_update(@, x.map)])
  ELSE IF x.k \in {"list", "tuple"} THEN apply_items(inst, x.items, 1)
  ELSE IF x.k = "str" THEN Return([inst EXCEPT !.labels = @ \cup {x.s}])
  ELSE Raise("TypeError")

apply_items(inst, items, i) ==
  IF i > Len(items) THEN Return(inst) ELSE apply_next(apply(inst, items[i]), items, i)

apply_next(r, items, i) == IF r.ok THEN apply_items(r.seq[1], items, i + 1) ELSE r

cast_node(obj) ==
  IF obj.k \in {"None", "Node"} THEN Return(obj) ELSE apply(PyNode(Fresh, NoRef, {}, <<>>), obj)

\* a (type, properties) tuple
IsPair(r) == r.k = "tuple" /\ Len(r.items) = 2 /\ r.items[1].k = "str"

\* the three cases of num_args that keep a relationship, over the list n
PropertyRelationship___init__(n, p) ==
  IF Len(n) = 0 THEN Raise("TypeError: Relationships must specify at least one endpoint")
  ELSE IF Len(n) = 1 THEN Return(PyRel(Fresh, n[1], PyStr(DefaultType), n[1], p))
  ELSE IF Len(n) = 2 THEN
    IF n[2].k \in {"None", "str"} THEN Return(PyRel(Fresh, n[1], n[2], n[1], p))
    ELSE Return(PyRel(Fresh, n[1], PyStr(DefaultType), n[2], p))
  ELSE IF Len(n) = 3 THEN Return(PyRel(Fresh, n[1], n[2], n[3], p))
  ELSE Raise("TypeError: Hyperedges not supported")

\* the list n of Relationship.__init__: what each positional value appends
Relationship_n(nodes) ==
  [i \in 1..Len(nodes) |->
     IF nodes[i].k = "str" THEN Return(nodes[i])
     ELSE IF IsPair(nodes[i]) THEN Return(nodes[i].items[1])
     ELSE cast_node(nodes[i])]

RECURSIVE Relationship_p(_, _, _)
\* the dict p of Relationship.__init__ after the values from position i on;
\* a pair's second item is a dict in every call made here
Relationship_p(nodes, i, p) ==
  IF i > Len(nodes) THEN p
  ELSE Relationship_p(nodes, i + 1, IF IsPair(nodes[i]) THEN dict_update(p, nodes[i].items[2].map) ELSE p)

\* Relationship(nodes..., properties...)
Relationship___init__nodes(nodes, properties) ==
  IF \E i \in 1..Len(nodes) : ~Relationship_n(nodes)[i].ok THEN Raise("TypeError")
  ELSE PropertyRelationship___init__([i \in 1..Len(nodes) |-> Relationship_n(nodes)[i].seq[1]],
                                     dict_update(Relationship_p(nodes, 1, <<>>), properties))

get_type(r) ==
  IF r.k = "str" THEN Return(r)
  ELSE IF r.k = "Relationship" THEN Return(r.type)
  ELSE IF IsPair(r) THEN Return(r.items[1])
  ELSE Raise("ValueError")

get_properties(r) ==
  IF r.k = "str" THEN Return(<<>>)
  ELSE IF r.k = "Relationship" THEN Return(r.props)
  ELSE IF IsPair(r) THEN (IF r.items[2].k = "dict" THEN Return(r.items[2].map) ELSE Raise("TypeError"))
  ELSE Raise("ValueError")

\* dict(get_properties(t), **properties), with the slot's entries winning
cast_relationship_propertiesSlotWins(ps, explicit) == dict_update(explicit, ps)

\* dict(get_properties(t), **properties)
cast_relationship_properties(ps, explicit) == dict_update(ps, explicit)

\* entities[start_node] where an index is given and entities is not empty
cast_relationship_entity(x, entities) ==
  IF entities.k = "list" /\ Len(entities.items) > 0 /\ x.k = "int"
  THEN (IF x.i < Len(entities.items) THEN Return(entities.items[x.i + 1]) ELSE Raise("IndexError"))
  ELSE Return(x)

\* Relationship(start_node, get_type(t), end_node, **properties)
cast_relationship_new(a, t, b, ps) ==
  IF ~a.ok THEN a
  ELSE IF ~b.ok THEN b
  ELSE IF ~t.ok THEN t
  ELSE Relationship___init__nodes(<<a.seq[1], t.seq[1], b.seq[1]>>, ps)

\* the tuple branch of cast_relationship, ps being get_properties(t)
cast_relationship_tuple(items, ps, entities) ==
  IF ~ps.ok THEN ps
  ELSE IF Len(items) = 4 /\ items[4].k # "dict" THEN Raise("TypeError")
  ELSE cast_relationship_new(cast_relationship_entity(items[1], entities), get_type(items[2]),
                             cast_relationship_entity(items[3], entities),
                             IF Len(items) = 4 THEN cast_relationship_properties(ps.seq[1], items[4].map)
                             ELSE ps.seq[1])

cast_relationship(obj, entities) ==
  IF obj.k = "Relationship" THEN Return(obj)
  ELSE IF obj.k = "tuple" /\ Len(obj.items) \in {3, 4}
  THEN cast_relationship_tuple(obj.items, get_properties(obj.items[2]), entities)
  ELSE Raise("TypeError")

cast(obj, entities) ==
  IF obj.k = "None" THEN Return(obj)
  ELSE IF obj.k \in {"Node", "Relationship", "Path"} THEN Return(obj)
  ELSE IF obj.k = "dict" THEN cast_node(obj)
  ELSE IF obj.k = "tuple" THEN cast_relationship(obj, entities)
  ELSE Raise("TypeError")

\* the values the calls are made with
CastNodes == {PyNode(n, NoRef, {}, <<>>) : n \in 1..MaxCastNodes}

CastRel == PyRel(1, PyNode(1, NoRef, {}, <<>>), PyStr(1), PyNode(MaxCastNodes, NoRef, {}, <<>>), [x \in {1} |-> 1])

CastPath == PyPath(<<CastRel.start, CastRel, CastRel.end>>)

Strs == {PyStr(x) : x \in 1..MaxStr}

Ints == {PyInt(x) : x \in 0..MaxInt}

Dicts == {PyDict(m) : m \in Maps}

Pairs == {PyTuple(<<t, d>>) : t \in Strs, d \in Dicts}

\* mappings of at most one entry
SmallMaps == {m \in Maps : Cardinality(DOMAIN m) <= 1}

Elements == {NoneArg, PyInt(0)} \cup Strs \cup {PyDict(m) : m \in SmallMaps}

RECURSIVE NestedLists(_)
NestedLists(d) ==
  IF d = 0 THEN Elements
  ELSE Elements \cup {PyList(xs) : xs \in UNION {[1..n -> NestedLists(d - 1)] : n \in 0..MaxItems}}

\* the start and end slots and the type slots of a relationship tuple
EndSlots == CastNodes \cup Ints \cup {PyDict(<<>>)}

TypeSlots == Strs \cup Pairs \cup {PyInt(0), CastRel}

\* the tuples handed to cast and cast_relationship, over the slots given
RelTuples(ends, slots) ==
  {PyTuple(<<>>)} \cup {PyTuple(<<a, t>>) : a \in CastNodes, t \in Strs}
    \cup {PyTuple(<<a, t, b>>) : a \in ends, t \in slots, b \in ends}
    \cup {PyTuple(<<a, t, b, d>>) : a \in ends, t \in slots, b \in ends, d \in Dicts \cup {NoneArg}}

EntityLists == {NoneArg, PyList(<<>>), PyList([i \in 1..MaxCastNodes |-> PyNode(i, NoRef, {}, <<>>)])}

CastValues(ends, slots) ==
  CastNodes \cup {CastRel, CastPath, PyList(<<PyInt(0)>>)} \cup Elements \cup Dicts \cup RelTuples(ends, slots)

RelArgs ==
  CastNodes \cup {PyStr(1), NoneArg, PyInt(0), PyDict(<<>>)}
    \cup {PyTuple(<<PyStr(1), PyDict(m)>>) : m \in {[x \in {1} |-> v] : v \in 1..MaxVal}}

\* the calls with lists nested d deep and up to n positional arguments
CastCalls(d, n) ==
  {<<v>> : v \in NestedLists(d) \cup CastNodes \cup Pairs \cup Dicts}
    \cup {<<v, es>> : v \in CastValues(EndSlots, TypeSlots), es \in EntityLists}
    \cup {<<PyTuple(xs), PyDict(m)>> : xs \in UNION {[1..k -> RelArgs] : k \in 0..n}, m \in SmallMaps}

InitCast ==
  /\ IdleEntityValues
  /\ last = NoLast
  /\ gNode = <<>>
  /\ IdleSubgraph
  /\ wArgs \in CastCalls(MaxDepth, MaxRelArgs)
  /\ wOut = Raise("none")
  /\ wOp = "none"
  /\ wWalk = <<>>

\* cast(obj, entities)
Cast ==
  /\ wOp = "none"
  /\ Len(wArgs) = 2
  /\ wArgs[2].k \in {"None", "list"}
  /\ wOut' = cast(wArgs[1], wArgs[2])
  /\ wOp' = "cast"
  /\ UNCHANGED <<wArgs, wWalk>>
  /\ WalkFrame

\* cast_node(obj)
CastNode ==
  /\ wOp = "none"
  /\ Len(wArgs) = 1
  /\ wOut' = cast_node(wArgs[1])
  /\ wOp' = "cast_node"
  /\ UNCHANGED <<wArgs, wWalk>>
  /\ WalkFrame

\* cast_relationship(obj, entities)
CastRelationship ==
  /\ wOp = "none"
  /\ Len(wArgs) = 2
  /\ wArgs[2].k \in {"None", "list"}
  /\ wOut' = cast_relationship(wArgs[1], wArgs[2])
  /\ wOp' = "cast_relationship"
  /\ UNCHANGED <<wArgs, wWalk>>
  /\ WalkFrame

\* Relationship(nodes..., properties...)
NewRelationship ==
  /\ wOp = "none"
  /\ Len(wArgs) = 2
  /\ wArgs[2].k = "dict"
  /\ wOut' = Relationship___init__nodes(wArgs[1].items, wArgs[2].map)
  /\ wOp' = "Relationship"
  /\ UNCHANGED <<wArgs, wWalk>>
  /\ WalkFrame

NextCast == Cast \/ CastNode \/ CastRelationship \/ NewRelationship

SpecCast == InitCast /\ [][NextCast]_vars

---------------------------------------------------------------------------
(* Claims about casting and Relationship construction *)

\* C13: cast(value) returns the value itself when it is a Node, Relationship or
\* Path, gives what cast_node gives for a mapping and what cast_relationship
\* gives for a tuple, and fails with a type error for every other value.
C13_CastDispatch ==
  wOp = "cast" =>
    /\ wArgs[1].k \in {"Node", "Relationship", "Path"} => wOut = Return(wArgs[1])
    /\ wArgs[1].k = "dict" => wOut = cast_node(wArgs[1])
    /\ wArgs[1].k = "tuple" => wOut = cast_relationship(wArgs[1], wArgs[2])
    /\ wArgs[1].k \notin {"Node", "Relationship", "Path", "dict", "tuple"} =>
         ~wOut.ok /\ wOut.err = "TypeError"

RECURSIVE Castable(_)
\* x holds nothing but mappings, strings and sequences of these
Castable(x) ==
  IF x.k \in {"dict", "str"} THEN TRUE
  ELSE IF x.k \in {"list", "tuple"} THEN \A i \in 1..Len(x.items) : Castable(x.items[i])
  ELSE FALSE

RECURSIVE StringsIn(_)
\* every string found in x
StringsIn(x) ==
  IF x.k = "str" THEN {x.s}
  ELSE IF x.k \in {"list", "tuple"} THEN UNION {StringsIn(x.items[i]) : i \in 1..Len(x.items)}
  ELSE {}

RECURSIVE MapsIn(_)
\* every mapping found in x
MapsIn(x) ==
  IF x.k = "dict" THEN {x.map}
  ELSE IF x.k \in {"list", "tuple"} THEN UNION {MapsIn(x.items[i]) : i \in 1..Len(x.items)}
  ELSE {}

\* m has the keys of the mappings in M and, under each key, a value one of
\* them has under it
UnionOf(m, M) ==
  /\ DOMAIN m = UNION {DOMAIN d : d \in M}
  /\ \A x \in DOMAIN m : \E d \in M : x \in DOMAIN d /\ d[x] = m[x]

\* C14: cast_node returns the same instance for a Node; for any other value it
\* returns a new unbound Node whose properties are the union of all mappings
\* and whose labels are all strings found through nested sequences, or fails
\* with a type error if there is any other element; a mapping alone yields
\* no labels and exactly that mapping.
C14_CastNode ==
  wOp = "cast_node" =>
    /\ wArgs[1].k = "Node" => wOut = Return(wArgs[1])
    /\ (wArgs[1].k # "Node" /\ Castable(wArgs[1])) =>
         /\ wOut.ok
         /\ wOut.seq[1].k = "Node"
         /\ wOut.seq[1].id = Fresh
         /\ wOut.seq[1].uri = NoRef
         /\ wOut.seq[1].labels = StringsIn(wArgs[1])
         /\ UnionOf(wOut.seq[1].props, MapsIn(wArgs[1]))
    /\ (wArgs[1].k # "Node" /\ ~Castable(wArgs[1])) => ~wOut.ok /\ wOut.err = "TypeError"
    /\ wArgs[1].k = "dict" => wOut = Return(PyNode(Fresh, NoRef, {}, wArgs[1].map))

\* the properties a type slot carries
Embedded(t) == IF t.k = "str" THEN <<>> ELSE IF t.k = "Relationship" THEN t.props ELSE t.items[2].map

\* the type a type slot names
TypeOf(t) == IF t.k = "str" THEN t ELSE IF t.k = "Relationship" THEN t.type ELSE t.items[1]

\* a tuple of n items between two Nodes whose type slot is one of the kinds
RelTuple(x, n, kinds) ==
  /\ x.k = "tuple"
  /\ Len(x.items) = n
  /\ x.items[1].k = "Node"
  /\ x.items[3].k = "Node"
  /\ x.items[2].k \in kinds
  /\ n = 4 => x.items[4].k = "dict"

\* C15: cast_relationship of (start, type, end) yields a Relationship with that
\* type, start and end and no properties; of (start, type slot, end,
\* properties) it yields one whose properties are those of the type slot
\* merged with the explicit ones, the explicit value winning on a shared key.
C15_CastRelationship ==
  wOp = "cast_relationship" =>
    /\ RelTuple(wArgs[1], 3, {"str"}) =>
         wOut = Return(PyRel(Fresh, wArgs[1].items[1], wArgs[1].items[2], wArgs[1].items[3], <<>>))
    /\ RelTuple(wArgs[1], 4, {"str", "tuple", "Relationship"}) =>
         /\ wOut.ok
         /\ wOut.seq[1].k = "Relationship"
         /\ wOut.seq[1].id = Fresh
         /\ wOut.seq[1].start = wArgs[1].items[1]
         /\ wOut.seq[1].type = TypeOf(wArgs[1].items[2])
         /\ wOut.seq[1].end = wArgs[1].items[3]
         /\ DOMAIN wOut.seq[1].props = DOMAIN Embedded(wArgs[1].items[2]) \cup DOMAIN wArgs[1].items[4].map
         /\ \A x \in DOMAIN wArgs[1].items[4].map : wOut.seq[1].props[x] = wArgs[1].items[4].map[x]
         /\ \A x \in DOMAIN Embedded(wArgs[1].items[2]) \ DOMAIN wArgs[1].items[4].map :
              wOut.seq[1].props[x] = Embedded(wArgs[1].items[2])[x]

\* C15 witness: a 4-tuple is cast whose type slot and explicit properties
\* disagree on one key and whose type slot has a key of its own
C15_CastRelationshipWitness ==
  /\ wOp = "cast_relationship"
  /\ wOut.ok
  /\ RelTuple(wArgs[1], 4, {"tuple"})
  /\ \E x \in DOMAIN wArgs[1].items[4].map :
       x \in DOMAIN Embedded(wArgs[1].items[2]) /\ Embedded(wArgs[1].items[2])[x] # wArgs[1].items[4].map[x]
  /\ \E x \in DOMAIN Embedded(wArgs[1].items[2]) : x \notin DOMAIN wArgs[1].items[4].map

\* C18: constructing a Relationship from more than two participating nodes
\* fails with the hyperedge error and yields no Relationship.
C18_HyperedgeFails ==
  (wOp = "Relationship" /\ Cardinality({i \in 1..Len(wArgs[1].items) : wArgs[1].items[i].k = "Node"}) > 2) =>
    ~wOut.ok /\ wOut.err = "TypeError: Hyperedges not supported"

---------------------------------------------------------------------------
(* Graph.pull, Graph.push and the accessors of Entity that need the binding *)

MaxCalls == 1       \* calls made on the entities of one state
MaxEntities == 2    \* entities handed to one call of pull or push

\* the requests sent by tx.commit() (py2neo.cypher) for the statements run
\* in the transaction, and by Resource.post (py2neo.http) for a batch
CommitRequests == 1

PostRequests == 1

\* Entity.resource: the resource, or BindError when _resource is None
\* (_bind_pending_tx is None: nothing in this file sets it)
Entity_resource(e) == IF bound(e) THEN "none" ELSE "BindError"

\* entity.nodes() and entity.relationships() of a Node or a Relationship
Entity_nodes(R, x) == IF x.k = "n" THEN <<x.id>> ELSE <<R[x.id].start, R[x.id].end>>

Entity_relationships(x) == IF x.k = "n" THEN {} ELSE {x.id}

RECURSIVE NodesOf(_, _, _)
\* the nodes of the entities from position i on, in the order they are met
NodesOf(R, es, i) == IF i > Len(es) THEN <<>> ELSE Entity_nodes(R, es[i]) \o NodesOf(R, es, i + 1)

RECURSIVE DictKeys(_, _, _)
\* the keys of the dict `nodes`: a node equal to an earlier one is no new key
DictKeys(N, ns, i) ==
  IF i > Len(ns) THEN <<>>
  ELSE IF \E j \in 1..(i - 1) : Node___eq__(N, ns[j], ns[i]) THEN DictKeys(N, ns, i + 1)
  ELSE <<ns[i]>> \o DictKeys(N, ns, i + 1)

\* what a call leaves: the tables, the requests it sent, the error it raised
Outcome(N, C, R, RC, q, e) == [node |-> N, cache |-> C, rel |-> R, rcache |-> RC, requests |-> q, err |-> e]

RECURSIVE Pull_nodes(_, _, _, _, _)
\* the rows "a, labels(a)" of the nodes from position i on
Pull_nodes(N, C, ns, i, ans) ==
  IF i > Len(ns) THEN [node |-> N, cache |-> C]
  ELSE Pull_nodes(Graph_pull_node(N, C, ns[i], ans).node, Graph_pull_node(N, C, ns[i], ans).cache, ns, i + 1, ans)

RECURSIVE Pull_rels(_, _, _, _, _)
RECURSIVE Pull_rels_next(_, _, _)
\* the rows "r" of the relationships rs
Pull_rels(nc, R, RC, rs, ansR) ==
  IF rs = {} THEN Outcome(nc.node, nc.cache, R, RC, CommitRequests, "none")
  ELSE Pull_rels_next(Pull_rel(nc, R, RC, CHOOSE r \in rs : \A m \in rs : r <= m, ansR),
                      rs \ {CHOOSE r \in rs : \A m \in rs : r <= m}, ansR)

Pull_rels_next(h, rs, ansR) == Pull_rels([node |-> h.node, cache |-> h.cache], h.rel, h.rcache, rs, ansR)

\* Graph.pull(*entities) over the keys ns of `nodes` and the set rs: node._id
\* and relationship._id raise BindError before the commit
Graph_pull_keys(N, C, R, RC, ns, rs, ans, ansR) ==
  IF \E i \in 1..Len(ns) : Entity_resource(N[ns[i]]) = "BindError" THEN Outcome(N, C, R, RC, 0, "BindError")
  ELSE IF \E r \in rs : Entity_resource(R[r]) = "BindError" THEN Outcome(N, C, R, RC, 0, "BindError")
  ELSE Pull_rels(Pull_nodes(N, C, ns, 1, ans), R, RC, rs, ansR)

Graph_pull(N, C, R, RC, es, ans, ansR) ==
  IF Len(es) = 0 THEN Outcome(N, C, R, RC, 0, "none")
  ELSE Graph_pull_keys(N, C, R, RC, DictKeys(N, NodesOf(R, es, 1), 1),
                       UNION {Entity_relationships(es[i]) : i \in 1..Len(es)}, ans, ansR)

\* node.labels() inside push: Node.labels pulls the node when its labels are stale
Push_labels(h, n, R, RC, ans) ==
  IF "labels" \in h.node[n].stale
  THEN Outcome(Graph_pull_node(h.node, h.cache, n, ans).node, Graph_pull_node(h.node, h.cache, n, ans).cache,
               R, RC, h.requests + CommitRequests, "none")
  ELSE h

\* the batch jobs of one node or one relationship
Push_job(h, x, R, RC, ans) ==
  IF h.err # "none" THEN h
  ELSE IF x.k = "n" THEN
    (IF Entity_resource(h.node[x.id]) = "BindError" THEN [h EXCEPT !.err = "BindError"]
     ELSE Push_labels(h, x.id, R, RC, ans))
  ELSE
    (IF Entity_resource(R[x.id]) = "BindError" THEN [h EXCEPT !.err = "BindError"] ELSE h)

\* the nodes of an entity, then its relationships
Push_order(R, x) ==
  IF x.k = "n" THEN <<x>> ELSE <<NodeItem(R[x.id].start), NodeItem(R[x.id].end), x>>

RECURSIVE Push_jobs(_, _, _, _, _, _)
Push_jobs(h, xs, i, R, RC, ans) ==
  IF i > Len(xs) THEN h ELSE Push_jobs(Push_job(h, xs[i], R, RC, ans), xs, i + 1, R, RC, ans)

RECURSIVE JobsOf(_, _, _)
JobsOf(R, es, i) == IF i > Len(es) THEN <<>> ELSE Push_order(R, es[i]) \o JobsOf(R, es, i + 1)

\* self.resource.resolve("batch").post(batch)
Push_post(h) == IF h.err # "none" THEN h ELSE [h EXCEPT !.requests = @ + PostRequests]

Graph_push(N, C, R, RC, es, ans) ==
  Push_post(Push_jobs(Outcome(N, C, R, RC, 0, "none"), JobsOf(R, es, 1), 1, R, RC, ans))

\* the states of a node: local, or bound to reference u with some groups
\* stale; a stale group holds nothing locally
BoundNodes(u) ==
  {e \in [live : {TRUE}, uri : {u}, stale : SUBSET {"labels", "properties"}, props : PropVals, labels : LabelVals] :
     /\ "properties" \in e.stale => e.props = 0
     /\ "labels" \in e.stale => e.labels = 0}

LocalNodes == {Node___init__(l, p) : l \in LabelVals, p \in PropVals}

\* the states of a relationship from node 1: none, local, or bound
LocalRels == {Relationship___init__(1, t, b, 0) : t \in Types, b \in NodeIds}

BoundRels(u) ==
  {[e EXCEPT !.uri = u, !.stale = s, !.type = t] :
     e \in LocalRels, s \in SUBSET {"properties"}, t \in Types \cup {None}}

GraphEntities(N, R) ==
  {NodeItem(n) : n \in {m \in NodeIds : N[m].live}} \cup {RelItem(r) : r \in {m \in RelIds : R[m].live}}

EntityArgs(N, R) == UNION {[1..n -> GraphEntities(N, R)] : n \in 0..MaxEntities}

InitGraph ==
  /\ node \in [NodeIds -> LocalNodes \cup UNION {BoundNodes(u) : u \in NodeRefs}]
  /\ \A n \in NodeIds : bound(node[n]) => node[n].uri = n
  /\ nodeCache = [u \in NodeRefs |-> IF u \in NodeIds /\ bound(node[u]) THEN u ELSE None]
  /\ rel \in [RelIds -> {DeadRel} \cup LocalRels \cup UNION {BoundRels(u) : u \in RelRefs}]
  /\ \A r \in RelIds : bound(rel[r]) => rel[r].uri = r /\ ("properties" \in rel[r].stale => rel[r].props = 0)
  /\ relCache = [u \in RelRefs |-> IF u \in RelIds /\ bound(rel[u]) THEN u ELSE None]
  /\ last = NoLast
  /\ ops = 0
  /\ ctx = <<>>
  /\ IdleGraph

\* every call counts against the number of calls made
Called == ops < MaxCalls /\ ops' = ops + 1 /\ UNCHANGED <<ctx, gNode, subgraphVars, walkVars>>

Took(h) ==
  /\ node' = h.node
  /\ nodeCache' = h.cache
  /\ rel' = h.rel
  /\ relCache' = h.rcache

\* graph.pull(*es)
Pull(es, ans, ansR) ==
  /\ Called
  /\ Took(Graph_pull(node, nodeCache, rel, relCache, es, ans, ansR))
  /\ last' = Last("Graph.pull", es, Graph_pull(node, nodeCache, rel, relCache, es, ans, ansR).err, None,
                  Absent, Absent, None, Graph_pull(node, nodeCache, rel, relCache, es, ans, ansR).requests, FALSE)

\* graph.push(*es)
Push(es, ans) ==
  /\ Called
  /\ Took(Graph_push(node, nodeCache, rel, relCache, es, ans))
  /\ last' = Last("Graph.push", es, Graph_push(node, nodeCache, rel, relCache, es, ans).err, None,
                  Absent, Absent, None, Graph_push(node, nodeCache, rel, relCache, es, ans).requests, FALSE)

\* the entity x is one of the given ones
Held(x) == IF x.k = "n" THEN node[x.id] ELSE rel[x.id]

\* x.bound()
Bound(x) ==
  /\ Called
  /\ last' = Last("bound", <<x>>, IF Entity_resource(Held(x)) = "BindError" THEN "False" ELSE "True", None,
                  Absent, Absent, None, 0, FALSE)
  /\ UNCHANGED <<node, nodeCache, rel, relCache>>

\* x.resource, x.uri, x._id, x.ref: each reads x.resource first
Access(op, x) ==
  /\ Called
  /\ last' = Last(op, <<x>>, Entity_resource(Held(x)), None, Absent, Absent, None, 0, FALSE)
  /\ UNCHANGED <<node, nodeCache, rel, relCache>>

NextGraph ==
  \/ \E es \in EntityArgs(node, rel), ans \in NodeAnswers, ansR \in RelAnswers : Pull(es, ans, ansR)
  \/ \E es \in EntityArgs(node, rel), ans \in NodeAnswers : Push(es, ans)
  \/ \E x \in GraphEntities(node, rel) : Bound(x)
  \/ \E x \in GraphEntities(node, rel), op \in {"resource", "uri", "_id", "ref"} : Access(op, x)

SpecGraph == InitGraph /\ [][NextGraph]_vars

---------------------------------------------------------------------------
(* Claims about pull, push and unbound entities *)

\* C16: each call of Graph.pull and of Graph.push that is given entities and
\* returns has sent exactly one request to the remote store, whatever the
\* number of entities and whatever their staleness.
C16_OneRequestPerCall ==
  (last.op \in {"Graph.pull", "Graph.push"} /\ Len(last.ret) > 0 /\ last.kind = "none") => last.pulls = 1

\* the entity x has no remote binding
Unbound(x) == IF x.k = "n" THEN ~bound(node[x.id]) ELSE ~bound(rel[x.id])

\* C17: for an entity with no remote binding, bound() is false, and resource,
\* uri, _id, ref and Graph.pull / Graph.push given that entity fail with a
\* binding error, send no request and leave every entity as it was.
C17_UnboundFails ==
  [][(ops' = ops + 1 /\ \E i \in 1..Len(last'.ret) : Unbound(last'.ret[i])) =>
       /\ last'.op = "bound" => last'.kind = "False"
       /\ last'.op # "bound" => last'.kind = "BindError"
       /\ last'.pulls = 0
       /\ UNCHANGED <<node, nodeCache, rel, relCache>>]_vars

---------------------------------------------------------------------------
(* Hydration in several execution contexts *)

MaxContexts == 2    \* execution contexts (threads)
MaxCtxNodes == 4    \* Node instances of all contexts alive at the same time
MaxCtxRels == 2     \* Relationship instances of all contexts alive at the same time
MaxCtxOps == 3      \* operations begun by all contexts together

Contexts == 1..MaxContexts

CtxNodeIds == 1..MaxCtxNodes

CtxRelIds == 1..MaxCtxRels

\* a cache that every context sees the same scope of
ThreadLocalShared(c) == 1

\* ThreadLocalWeakValueDictionary (py2neo.util): the scope of Node.cache and
\* Relationship.cache that context c reads and writes is its own
ThreadLocal(c) == c

\* a context between operations that holds nothing yet: its scope of the two
\* caches, its position, the arguments and locals of the hydration it is in
\* (new: new_inst, made: the nodes hydrated for new_inst), and the instances
\* its hydrations have returned to it
IdleContext ==
  [cache |-> [u \in NodeRefs |-> None], rcache |-> [u \in RelRefs |-> None],
   pc |-> "idle", op |-> "none", ref |-> NoRef, p |-> Absent, l |-> Absent, t |-> None,
   new |-> None, made |-> {}, inst |-> None, held |-> {}, rheld |-> {}]

\* the slot a new instance is allocated in
FreeIn(N) ==
  IF \E n \in DOMAIN N : ~N[n].live THEN CHOOSE n \in DOMAIN N : ~N[n].live /\ \A m \in DOMAIN N : ~N[m].live => n <= m
  ELSE None

\* the step a context took last
CtxLast(c, op, ret) == Last(op, ret, "context", c, Absent, Absent, None, 0, FALSE)

InitContexts ==
  /\ node = [n \in CtxNodeIds |-> DeadNode]
  /\ nodeCache = [u \in NodeRefs |-> None]
  /\ rel = [r \in CtxRelIds |-> DeadRel]
  /\ relCache = [u \in RelRefs |-> None]
  /\ last = NoLast
  /\ ops = 0
  /\ ctx = [c \in Contexts |-> IdleContext]
  /\ IdleGraph

CtxFrame == UNCHANGED <<nodeCache, relCache, gNode, subgraphVars, walkVars>>

\* a context begins an operation
CtxBegin(c) == ctx[c].pc = "idle" /\ ops < MaxCtxOps /\ ops' = ops + 1

\* Node.hydrate(data) in context c, up to new_inst.__stale.update(...)
NodeBegin(c, ref, p, l) ==
  /\ CtxBegin(c)
  /\ FreeIn(node) # None
  /\ node' = [node EXCEPT ![FreeIn(node)] = StaleNode]
  /\ ctx' = [ctx EXCEPT ![c].pc = "setdefault", ![c].op = "Node.hydrate", ![c].ref = ref, ![c].p = p,
                        ![c].l = l, ![c].new = FreeIn(node), ![c].inst = None]
  /\ last' = CtxLast(c, "Node()", FreeIn(node))
  /\ UNCHANGED rel
  /\ CtxFrame

\* Node.hydrate(data, inst) in context c with an instance the context holds
NodeInto(c, ref, p, l, inst) ==
  /\ CtxBegin(c)
  /\ inst \in ctx[c].held
  /\ ctx' = [ctx EXCEPT ![c].pc = "bind", ![c].op = "Node.hydrate", ![c].ref = ref, ![c].p = p,
                        ![c].l = l, ![c].new = None, ![c].inst = inst]
  /\ last' = CtxLast(c, "Node.hydrate(inst)", inst)
  /\ UNCHANGED <<node, rel>>
  /\ CtxFrame

\* inst = cls.cache.setdefault(self, new_inst): the cache keeps what it has
\* and new_inst is let go of, or it takes new_inst
NodeSetdefault(c) ==
  /\ ctx[c].pc = "setdefault"
  /\ ctx[c].op = "Node.hydrate"
  /\ IF ctx[ThreadLocal(c)].cache[ctx[c].ref] = None
     THEN /\ ctx' = [ctx EXCEPT ![ThreadLocal(c)].cache[ctx[c].ref] = ctx[c].new,
                                ![c].inst = ctx[c].new, ![c].pc = "bind"]
          /\ UNCHANGED node
     ELSE /\ ctx' = [ctx EXCEPT ![c].inst = ctx[ThreadLocal(c)].cache[ctx[c].ref], ![c].pc = "bind"]
          /\ node' = [node EXCEPT ![ctx[c].new] = DeadNode]
  /\ last' = CtxLast(c, "setdefault", ctx[c].new)
  /\ UNCHANGED <<rel, ops>>
  /\ CtxFrame

\* cls.cache[self] = inst; inst._bind(self, data); the groups the record carries
NodeBind(c) ==
  /\ ctx[c].pc = "bind"
  /\ ctx[c].op = "Node.hydrate"
  /\ node' = [node EXCEPT ![ctx[c].inst] = Node_bind(node[ctx[c].inst], ctx[c].ref, ctx[c].p, ctx[c].l)]
  /\ ctx' = [ctx EXCEPT ![ThreadLocal(c)].cache[ctx[c].ref] = ctx[c].inst,
                        ![c].held = @ \cup {ctx[c].inst}, ![c].pc = "idle"]
  /\ last' = CtxLast(c, "Node.hydrate", ctx[c].inst)
  /\ UNCHANGED <<rel, ops>>
  /\ CtxFrame

\* Node.hydrate({"self": ref}) as Relationship.hydrate calls it: the node
\* table, the scope of the cache, the instance, and the instance made if any
Ctx_Node_hydrate(N, C, ref, made) ==
  IF C[ref] # None
  THEN [node |-> [N EXCEPT ![C[ref]] = Node_bind(N[C[ref]], ref, Absent, Absent)], cache |-> C,
        inst |-> C[ref], made |-> made]
  ELSE [node |-> [N EXCEPT ![FreeIn(N)] = Node_bind(StaleNode, ref, Absent, Absent)],
        cache |-> [C EXCEPT ![ref] = FreeIn(N)], inst |-> FreeIn(N), made |-> made \cup {FreeIn(N)}]

\* the slots the two end points of a new relationship need at most
Room(N, n) == Cardinality({m \in DOMAIN N : ~N[m].live}) >= n

\* Relationship.hydrate(data) in context c, up to new_inst = cls(...), h1 and
\* h2 being the hydrations of its start and its end
RelBegin_new(c, ref, t, d, h1, h2) ==
  /\ node' = h2.node
  /\ rel' = [rel EXCEPT ![FreeIn(rel)] = Relationship___init__(h1.inst, t, h2.inst, IF d = Absent THEN 0 ELSE d)]
  /\ ctx' = [ctx EXCEPT ![ThreadLocal(c)].cache = h2.cache,
                        ![c].pc = "setdefault", ![c].op = "Relationship.hydrate", ![c].ref = ref,
                        ![c].p = d, ![c].t = t, ![c].new = FreeIn(rel), ![c].made = h2.made, ![c].inst = None]
  /\ last' = CtxLast(c, "Relationship()", FreeIn(rel))

RelBegin_end(c, ref, e, t, d, h1) ==
  RelBegin_new(c, ref, t, d, h1, Ctx_Node_hydrate(h1.node, h1.cache, e, h1.made))

RelBegin(c, ref, s, e, t, d) ==
  /\ CtxBegin(c)
  /\ FreeIn(rel) # None
  /\ Room(node, 2)
  /\ RelBegin_end(c, ref, e, t, d, Ctx_Node_hydrate(node, ctx[ThreadLocal(c)].cache, s, {}))
  /\ CtxFrame

\* the nodes made for a new_inst that is let go of, unless the context holds them
Orphans(c) == ctx[c].made \ ctx[c].held

\* inst = cls.cache.setdefault(self, new_inst)
RelSetdefault(c) ==
  /\ ctx[c].pc = "setdefault"
  /\ ctx[c].op = "Relationship.hydrate"
  /\ IF ctx[ThreadLocal(c)].rcache[ctx[c].ref] = None
     THEN /\ ctx' = [ctx EXCEPT ![ThreadLocal(c)].rcache[ctx[c].ref] = ctx[c].new,
                                ![c].inst = ctx[c].new, ![c].pc = "bind"]
          /\ UNCHANGED <<node, rel>>
     ELSE /\ ctx' = [ctx EXCEPT ![ThreadLocal(c)].cache =
                                  [u \in NodeRefs |-> IF @[u] \in Orphans(c) THEN None ELSE @[u]],
                                ![c].inst = ctx[ThreadLocal(c)].rcache[ctx[c].ref], ![c].pc = "bind"]
          /\ rel' = [rel EXCEPT ![ctx[c].new] = DeadRel]
          /\ node' = [n \in DOMAIN node |-> IF n \in Orphans(c) THEN DeadNode ELSE node[n]]
  /\ last' = CtxLast(c, "setdefault", ctx[c].new)
  /\ UNCHANGED ops
  /\ CtxFrame

\* cls.cache[self] = inst; inst._bind(self, data); the context holds the
\* relationship and, through it, its end points
RelBind(c) ==
  /\ ctx[c].pc = "bind"
  /\ ctx[c].op = "Relationship.hydrate"
  /\ rel' = [rel EXCEPT ![ctx[c].inst].uri = ctx[c].ref]
  /\ ctx' = [ctx EXCEPT ![ThreadLocal(c)].rcache[ctx[c].ref] = ctx[c].inst,
                        ![c].rheld = @ \cup {ctx[c].inst},
                        ![c].held = @ \cup {rel[ctx[c].inst].start, rel[ctx[c].inst].end},
                        ![c].pc = "idle"]
  /\ last' = CtxLast(c, "Relationship.hydrate", ctx[c].inst)
  /\ UNCHANGED <<node, ops>>
  /\ CtxFrame

\* node[key] = value, node.labels().add(label) on a node the context holds
UpdateNode(c, n, p, l) ==
  /\ CtxBegin(c)
  /\ n \in ctx[c].held
  /\ node' = [node EXCEPT ![n].props = p, ![n].labels = l]
  /\ last' = CtxLast(c, "update", n)
  /\ UNCHANGED <<rel, ctx>>
  /\ CtxFrame

\* relationship[key] = value on a relationship the context holds
UpdateRel(c, r, p) ==
  /\ CtxBegin(c)
  /\ r \in ctx[c].rheld
  /\ rel' = [rel EXCEPT ![r].props = p]
  /\ last' = CtxLast(c, "update", r)
  /\ UNCHANGED <<node, ctx>>
  /\ CtxFrame

\* what a record carries of a group: nothing, or a value
Carried(V) == {Absent} \cup (V \ {0})

NextContexts ==
  \E c \in Contexts :
    \/ \E ref \in NodeRefs, p \in Carried(PropVals), l \in Carried(LabelVals) : NodeBegin(c, ref, p, l)
    \/ \E ref \in NodeRefs, p \in Carried(PropVals), l \in Carried(LabelVals), inst \in CtxNodeIds :
         NodeInto(c, ref, p, l, inst)
    \/ NodeSetdefault(c)
    \/ NodeBind(c)
    \/ \E ref \in RelRefs, s \in NodeRefs, e \in NodeRefs, t \in Types, d \in Carried(PropVals) :
         RelBegin(c, ref, s, e, t, d)
    \/ RelSetdefault(c)
    \/ RelBind(c)
    \/ \E n \in CtxNodeIds, p \in PropVals, l \in LabelVals : UpdateNode(c, n, p, l)
    \/ \E r \in CtxRelIds, p \in PropVals : UpdateRel(c, r, p)

SpecContexts == InitContexts /\ [][NextContexts]_vars

---------------------------------------------------------------------------
(* Claims about execution contexts *)

\* no instance is held, cached or being bound by two contexts
DistinctInstances ==
  \A c \in Contexts, d \in Contexts : c # d =>
    /\ ctx[c].held \cap ctx[d].held = {}
    /\ ctx[c].rheld \cap ctx[d].rheld = {}
    /\ \A u \in NodeRefs : ctx[c].cache[u] # None => ctx[c].cache[u] # ctx[d].cache[u]
    /\ \A u \in RelRefs : ctx[c].rcache[u] # None => ctx[c].rcache[u] # ctx[d].rcache[u]
    /\ (ctx[c].pc = "bind" /\ ctx[c].op = "Node.hydrate") => ctx[c].inst \notin ctx[d].held
    /\ (ctx[c].pc = "bind" /\ ctx[c].op = "Relationship.hydrate") => ctx[c].inst \notin ctx[d].rheld

\* a step of another context than c leaves the instances c holds as they are
Undisturbed(c) ==
  last'.prev # c =>
    /\ \A n \in ctx[c].held : node'[n] = node[n]
    /\ \A r \in ctx[c].rheld : rel'[r] = rel[r]

\* C19: two execution contexts that hydrate the same remote reference
\* concurrently obtain distinct instances, and no step of a hydration or of a
\* field update in one context changes the field values or the staleness of
\* an instance held by the other context.
C19_ContextsIsolated ==
  [][DistinctInstances' /\ \A c \in Contexts : Undisturbed(c)]_vars

\* C19 witness: both contexts are in the middle of Node.hydrate for the same
\* reference, after setdefault, and one of them already holds an instance
\* for that reference
C19_ContextsIsolatedWitness ==
  /\ ctx[1].pc = "bind"
  /\ ctx[2].pc = "bind"
  /\ ctx[1].op = "Node.hydrate"
  /\ ctx[2].op = "Node.hydrate"
  /\ ctx[1].ref = ctx[2].ref
  /\ ctx[1].inst \in ctx[1].held
  /\ node[ctx[1].inst].uri = ctx[1].ref
  /\ ctx[2].inst # ctx[1].inst


---------------------------------------------------------------------------
(* Refreshing an entity that the remote store no longer holds *)

\* cursor.evaluate(1) (py2neo.cypher): column 1 of the first row, or null
\* when the statement matched nothing
Cursor_evaluate(found, ans) == IF found THEN ans.labels ELSE Absent

\* the row of node n once an earlier labels.update has raised e: the commit
\* has hydrated it, the loop over nodes.items() does not reach it
Pull_row(N, C, n, ans, e) ==
  IF e = "none" THEN Graph_pull_node(N, C, n, ans)
  ELSE Node_hydrate(N, C, N[n].uri, ans.data, IF ans.metadata THEN ans.labels ELSE Absent, n)

RECURSIVE Pull_rows(_, _, _, _, _, _, _)
\* the nodes from position i on; for a node with no row nothing is hydrated,
\* labels.clear() empties its labels and labels.update(null) raises TypeError
Pull_rows(N, C, ns, i, ans, gone, e) ==
  IF i > Len(ns) THEN [node |-> N, cache |-> C, err |-> e]
  ELSE IF Cursor_evaluate(NodeItem(ns[i]) \notin gone, ans) = Absent
  THEN Pull_rows(IF e = "none" THEN [N EXCEPT ![ns[i]].labels = 0] ELSE N, C, ns, i + 1, ans, gone, "TypeError")
  ELSE Pull_rows(Pull_row(N, C, ns[i], ans, e).node, Pull_row(N, C, ns[i], ans, e).cache, ns, i + 1, ans, gone, e)

\* the rows of the relationships that have one; no cursor of a relationship
\* is read after the commit
Pull_found_rels(rows, R, RC, rs, ansR) ==
  [Pull_rels([node |-> rows.node, cache |-> rows.cache], R, RC, rs, ansR) EXCEPT !.err = rows.err]

Pull_found_keys(N, C, R, RC, ns, rs, ans, ansR, gone) ==
  IF \E i \in 1..Len(ns) : Entity_resource(N[ns[i]]) = "BindError" THEN Outcome(N, C, R, RC, 0, "BindError")
  ELSE IF \E r \in rs : Entity_resource(R[r]) = "BindError" THEN Outcome(N, C, R, RC, 0, "BindError")
  ELSE Pull_found_rels(Pull_rows(N, C, ns, 1, ans, gone, "none"), R, RC,
                       {r \in rs : RelItem(r) \notin gone}, ansR)

\* Graph.pull of the entities es when the remote store holds no node or
\* relationship for the entities of gone
Graph_pull_found(N, C, R, RC, es, ans, ansR, gone) ==
  IF Len(es) = 0 THEN Outcome(N, C, R, RC, 0, "none")
  ELSE Pull_found_keys(N, C, R, RC, DictKeys(N, NodesOf(R, es, 1), 1),
                       UNION {Entity_relationships(es[i]) : i \in 1..Len(es)}, ans, ansR, gone)

\* the entities a pull of es asks the remote store for
Pulled(R, es) ==
  {NodeItem(NodesOf(R, es, 1)[i]) : i \in 1..Len(NodesOf(R, es, 1))}
    \cup UNION {{RelItem(r) : r \in Entity_relationships(es[i])} : i \in 1..Len(es)}

\* the condition under which the accessor op of x pulls x
Stale(op, x) ==
  /\ Entity_resource(Held(x)) = "none"
  /\ \/ op = "Node.__getitem__" /\ x.k = "n" /\ "properties" \in node[x.id].stale
     \/ op = "Node.labels" /\ x.k = "n" /\ "labels" \in node[x.id].stale
     \/ op = "Relationship.properties" /\ x.k = "r" /\ "properties" \in rel[x.id].stale
     \/ op = "Relationship.type" /\ x.k = "r" /\ rel[x.id].type = None

Accessors(x) ==
  IF x.k = "n" THEN {"Node.__getitem__", "Node.labels"} ELSE {"Relationship.properties", "Relationship.type"}

\* graph.pull(x) where the entities of gone have no remote counterpart
PullGone(x, ans, ansR, gone) ==
  /\ Called
  /\ gone \subseteq Pulled(rel, <<x>>)
  /\ Took(Graph_pull_found(node, nodeCache, rel, relCache, <<x>>, ans, ansR, gone))
  /\ last' = Last("Graph.pull", <<x>>, Graph_pull_found(node, nodeCache, rel, relCache, <<x>>, ans, ansR, gone).err,
                  None, Absent, Absent, None,
                  Graph_pull_found(node, nodeCache, rel, relCache, <<x>>, ans, ansR, gone).requests, gone # {})

\* an accessor of x that pulls x: the error of the pull is the accessor's
Refresh(op, x, ans, ansR, gone) ==
  /\ Called
  /\ Stale(op, x)
  /\ gone \subseteq Pulled(rel, <<x>>)
  /\ Took(Graph_pull_found(node, nodeCache, rel, relCache, <<x>>, ans, ansR, gone))
  /\ last' = Last(op, <<x>>, Graph_pull_found(node, nodeCache, rel, relCache, <<x>>, ans, ansR, gone).err,
                  None, Absent, Absent, None,
                  Graph_pull_found(node, nodeCache, rel, relCache, <<x>>, ans, ansR, gone).requests, gone # {})

\* an accessor of x whose group is fresh, or whose entity is unbound: no pull
Read(op, x) ==
  /\ Called
  /\ ~Stale(op, x)
  /\ last' = Last(op, <<x>>, "none", None, Absent, Absent, None, 0, FALSE)
  /\ UNCHANGED <<node, nodeCache, rel, relCache>>

Gone == SUBSET ({NodeItem(n) : n \in NodeIds} \cup {RelItem(r) : r \in RelIds})

NextRefresh ==
  \/ \E x \in GraphEntities(node, rel), ans \in NodeAnswers, ansR \in RelAnswers, gone \in Gone :
       PullGone(x, ans, ansR, gone)
  \/ \E x \in GraphEntities(node, rel), ans \in NodeAnswers, ansR \in RelAnswers, gone \in Gone :
       \E op \in Accessors(x) : Refresh(op, x, ans, ansR, gone)
  \/ \E x \in GraphEntities(node, rel) : \E op \in Accessors(x) : Read(op, x)

SpecRefresh == InitGraph /\ [][NextRefresh]_vars

\* C21: when the refresh triggered by an access to a stale field group of a
\* bound entity, or an explicit pull, finds no matching remote entity, the
\* access fails with a not-found error: it neither succeeds nor fails with
\* an error of another kind.
C21_RefreshNotFound ==
  (last.was /\ last.pulls > 0) => last.kind = "NotFoundError"


---------------------------------------------------------------------------
(* The sequence of a TraversableSubgraph: constructor, slicing, addition *)

MaxTail == 2    \* the arguments after head in TraversableSubgraph(head, ...)

\* TraversableSubgraph.__init__(head, tail...): the sequence is the
\* arguments as they are given
TraversableSubgraph___init__(xs) ==
  IF Len(xs) = 0 THEN [ok |-> FALSE, seq |-> <<>>, err |-> "TypeError"]
  ELSE [ok |-> TRUE, seq |-> xs, err |-> "none"]

\* TraversableSubgraph.relationships(): sequence[1::2]
TraversableSubgraph_relationships(x) == [i \in 1..(Len(x) \div 2) |-> x[2 * i]]

\* TraversableSubgraph.length()
TraversableSubgraph_length(x) == Len(TraversableSubgraph_relationships(x))

\* a bound of a slice: an integer or None
IntArg(i) == [k |-> "int", i |-> i]

\* the bounds of index as __getitem__ hands them to the tuple
Slice_start(x, start) ==
  IF start.k = "None" THEN start
  ELSE IntArg(2 * (IF start.i < 0 THEN start.i + TraversableSubgraph___len__(x) ELSE start.i))

Slice_stop(x, stop) ==
  IF stop.k = "None" THEN stop
  ELSE IntArg(2 * (IF stop.i < 0 THEN stop.i + TraversableSubgraph___len__(x) ELSE stop.i) + 1)

\* the position in a tuple of length n that a slice bound stands for
Tuple_bound(n, b, default) ==
  IF b.k = "None" THEN default
  ELSE IF b.i < 0 THEN (IF b.i + n < 0 THEN 0 ELSE b.i + n)
  ELSE IF b.i > n THEN n ELSE b.i

\* sequence[start:stop] of a tuple
Tuple_slice(x, start, stop) ==
  SubSeq(x, Tuple_bound(Len(x), start, 0) + 1, Tuple_bound(Len(x), stop, Len(x)))

\* TraversableSubgraph.__getitem__(slice(start, stop))
TraversableSubgraph___getitem__slice(x, start, stop) ==
  TraversableSubgraph___init__(Tuple_slice(x, Slice_start(x, start), Slice_stop(x, stop)))

Items == {NodeItem(n) : n \in GraphNodeIds} \cup {RelItem(r) : r \in GraphRelIds}

SliceBounds == {NoneArg} \cup {IntArg(i) : i \in (0 - MaxIndex)..MaxIndex}

\* t = TraversableSubgraph(head, tail...)
NewTraversable(xs) ==
  /\ wOp = "none"
  /\ wArgs' = <<xs>>
  /\ wOut' = TraversableSubgraph___init__(xs)
  /\ wOp' = "TraversableSubgraph"
  /\ wWalk' = Built(TraversableSubgraph___init__(xs), wWalk)
  /\ WalkFrame

\* p = Path(xs...)
NewWalk(xs) ==
  /\ wOp = "none"
  /\ NewPath(xs)

\* q = p[start:stop] for the p just constructed
Slice(start, stop) ==
  /\ wOp \in {"Path", "TraversableSubgraph"}
  /\ wWalk # <<>>
  /\ wArgs' = <<wWalk, <<start, stop>>>>
  /\ wOut' = TraversableSubgraph___getitem__slice(wWalk, start, stop)
  /\ wOp' = "slice"
  /\ wWalk' = Built(TraversableSubgraph___getitem__slice(wWalk, start, stop), wWalk)
  /\ WalkFrame

\* q = p + x for the p just constructed, when it starts and ends on a node
AddWalk(x) ==
  /\ wOp \in {"Path", "TraversableSubgraph"}
  /\ wWalk # <<>>
  /\ wWalk[1].k = "n"
  /\ wWalk[2 * ((Len(wWalk) + 1) \div 2) - 1].k = "n"
  /\ Add(x)

NextSequence ==
  \/ \E xs \in UNION {[1..k -> Items] : k \in 1..(1 + MaxTail)} : NewTraversable(xs)
  \/ \E xs \in ArgLists(Entities) : NewWalk(xs)
  \/ \E start \in SliceBounds, stop \in SliceBounds : Slice(start, stop)
  \/ \E x \in Entities : AddWalk(x)

SpecSequence == InitWalk /\ [][NextSequence]_vars

\* an alternating sequence that starts and ends on a node
IsWalk(x) ==
  /\ Len(x) % 2 = 1
  /\ \A i \in 1..Len(x) : x[i].k = (IF i % 2 = 1 THEN "n" ELSE "r")

\* C22: every TraversableSubgraph got from the constructor, from Path
\* construction, from slicing or from + has a sequence of odd length with
\* nodes at the even positions and relationships at the odd ones (counted
\* from zero), so that length() equals len(), and each slice p[i:j] with
\* 0 <= i <= j <= length is a walk of length j - i.
C22_WalkShape ==
  /\ wWalk # <<>> =>
       IsWalk(wWalk) /\ TraversableSubgraph_length(wWalk) = TraversableSubgraph___len__(wWalk)
  /\ (/\ wOp = "slice"
      /\ wArgs[2][1].k = "int"
      /\ wArgs[2][2].k = "int"
      /\ 0 <= wArgs[2][1].i
      /\ wArgs[2][1].i <= wArgs[2][2].i
      /\ wArgs[2][2].i <= TraversableSubgraph_length(wArgs[1])) =>
       /\ wOut.ok
       /\ IsWalk(wOut.seq)
       /\ TraversableSubgraph_length(wOut.seq) = wArgs[2][2].i - wArgs[2][1].i


---------------------------------------------------------------------------
(* The type of a locally constructed Relationship *)

\* the value in the type position of the arguments n, if the caller gave one
GivenType(n) ==
  IF Len(n) = 3 THEN n[2]
  ELSE IF Len(n) = 2 /\ (n[2].k = "str" \/ IsPair(n[2])) THEN n[2]
  ELSE NoneArg

\* C23: every locally constructed Relationship has a non-null string type:
\* the type the caller gave or, when the type is omitted, the default type
\* derived from the name of the relationship class.
C23_TypeIsString ==
  (wOp = "Relationship" /\ wOut.ok) =>
    /\ wOut.seq[1].type.k = "str"
    /\ wOut.seq[1].type =
         (IF GivenType(wArgs[1].items).k = "None" THEN PyStr(DefaultType)
          ELSE IF IsPair(GivenType(wArgs[1].items)) THEN GivenType(wArgs[1].items).items[1]
          ELSE GivenType(wArgs[1].items))


---------------------------------------------------------------------------
(* What Graph.push places in the batch *)

\* the two jobs of node n as push builds them from h: dict(node) reads the
\* local property map as it is, then list(node.labels()) reads the labels
\* after the pull that Node.labels makes when they are stale
Push_node_jobs(h, n, R, RC, ans) ==
  [to |-> n,
   props |-> h.node[n].props,
   propsStale |-> "properties" \in h.node[n].stale,
   labels |-> Push_labels(h, n, R, RC, ans).node[n].labels,
   labelsStale |-> "labels" \in h.node[n].stale /\ Push_labels(h, n, R, RC, ans).requests = h.requests]

RECURSIVE Push_batch(_, _, _, _, _, _)
\* the jobs of the nodes among xs from position i on
Push_batch(h, xs, i, R, RC, ans) ==
  IF i > Len(xs) \/ Push_job(h, xs[i], R, RC, ans).err # "none" THEN <<>>
  ELSE (IF xs[i].k = "n" THEN <<Push_node_jobs(h, xs[i].id, R, RC, ans)>> ELSE <<>>)
         \o Push_batch(Push_job(h, xs[i], R, RC, ans), xs, i + 1, R, RC, ans)

\* the batch that graph.push(es) posts from the entities as they are
Graph_push_batch(N, C, R, RC, es, ans) ==
  Push_batch(Outcome(N, C, R, RC, 0, "none"), JobsOf(R, es, 1), 1, R, RC, ans)

\* C24: Graph.push never writes a stale field group to the remote store:
\* for every node of the pushed entities, the property map and the label
\* list placed in the batch are fresh, a stale group being refreshed before
\* it is read for the batch.
C24_PushWritesFresh ==
  [][(last'.op = "Graph.push" /\ ops' = ops + 1 /\ last'.kind = "none") =>
       \A ans \in NodeAnswers :
         \A i \in 1..Len(Graph_push_batch(node, nodeCache, rel, relCache, last'.ret, ans)) :
           /\ ~Graph_push_batch(node, nodeCache, rel, relCache, last'.ret, ans)[i].propsStale
           /\ ~Graph_push_batch(node, nodeCache, rel, relCache, last'.ret, ans)[i].labelsStale]_vars


---------------------------------------------------------------------------
(* The entries of the identity caches *)

\* C25: after any sequence of hydrate, rebind and unbind operations, every
\* entry of the identity cache maps a reference to an instance that is
\* bound to exactly that reference at that moment: no entry points to an
\* instance that has since been rebound to another reference or unbound.
C25_CacheEntriesBound ==
  /\ \A u \in NodeRefs : nodeCache[u] # None => node[nodeCache[u]].live /\ node[nodeCache[u]].uri = u
  /\ \A u \in RelRefs : relCache[u] # None => rel[relCache[u]].live /\ rel[relCache[u]].uri = u


---------------------------------------------------------------------------
(* The hash of a node and the sets that hold it *)

\* PropertyNode.__hash__: hash(id(self))
PropertyNode___hash__(n) == [of |-> "id", v |-> n]

\* Node.__hash__: the hash of the resource URI when bound, of the instance otherwise
Node___hash__(e, n) == IF bound(e) THEN [of |-> "uri", v |-> e.uri] ELSE PropertyNode___hash__(n)

\* frozenset(nodes) of Subgraph.__init__: each member is filed under the
\* hash it has when the set is built
Subgraph_nodes(N, ns) == {[id |-> n, hash |-> Node___hash__(N[n], n)] : n \in ns}

\* n in subgraph.nodes(): a member filed under the hash n has now that is n
\* itself or equal to n
frozenset___contains__(S, N, n) ==
  \E m \in S : m.hash = Node___hash__(N[n], n) /\ (m.id = n \/ Node___eq__(N, m.id, n))

\* C26: the hash of a Node is the same before and after it is bound,
\* rebound or unbound, so that every Subgraph or walk that holds the node,
\* the node's own node set included, still reports it as a member afterwards.
C26_HashStable ==
  [][\A n \in NodeIds : (node[n].live /\ node'[n].live) =>
       /\ Node___hash__(node'[n], n) = Node___hash__(node[n], n)
       /\ frozenset___contains__(Subgraph_nodes(node, {n}), node', n)]_vars


---------------------------------------------------------------------------
(* Graph.__contains__ *)

MaxHosts == 3       \* graph databases, one Graph each
MaxEntityId == 4    \* the IDs of the entities of one graph

\* Graph(uri).uri.string, by segments: "http://host/db/data/"
Graph_uri(h) == <<h, "db", "data">>

\* the URI of an entity of the graph g: "http://host/db/data/node/3"
Entity_uri(g, kind, id) == Graph_uri(g) \o <<kind, id>>

\* what __contains__ is asked about: an unbound entity has no URI
Unbinding == <<>>

\* Entity.bound()
Entity_bound(e) == e.uri # Unbinding

\* str.startswith
startswith(s, prefix) == Len(prefix) <= Len(s) /\ SubSeq(s, 1, Len(prefix)) = prefix

\* Graph.__contains__(entity): the URI of the entity is compared with itself
Graph___contains__(g, entity) ==
  Entity_bound(entity) /\ startswith(entity.uri, entity.uri)

Hosts == 1..MaxHosts

ContainsEntities ==
  [k : {"Node", "Relationship"}, uri : {Unbinding}]
    \cup {[k |-> "Node", uri |-> Entity_uri(h, "node", i)] : h \in Hosts, i \in 1..MaxEntityId}
    \cup {[k |-> "Relationship", uri |-> Entity_uri(h, "relationship", i)] : h \in Hosts, i \in 1..MaxEntityId}

InitContains ==
  /\ IdleEntityValues
  /\ last = NoLast
  /\ gNode = <<>>
  /\ IdleSubgraph
  /\ wArgs \in {<<[k |-> "Graph", uri |-> Graph_uri(h)], e>> : h \in Hosts, e \in ContainsEntities}
  /\ wOut = Raise("none")
  /\ wOp = "none"
  /\ wWalk = <<>>

\* wArgs[2] in wArgs[1]
Contains ==
  /\ wOp = "none"
  /\ wOut' = Return(Graph___contains__(wArgs[1], wArgs[2]))
  /\ wOp' = "Graph.__contains__"
  /\ UNCHANGED <<wArgs, wWalk>>
  /\ WalkFrame

NextContains == Contains

SpecContains == InitContains /\ [][NextContains]_vars

\* C27: for every graph g and entity e, `e in g` is true exactly when e is
\* bound to a remote resource whose URI lies under g's own URI; an entity
\* bound to a different graph is not contained in g.
C27_ContainsOwnEntities ==
  wOp = "Graph.__contains__" =>
    (wOut.seq[1] <=> (Entity_bound(wArgs[2]) /\ startswith(wArgs[2].uri, wArgs[1].uri)))

====
